---- MODULE Spec2Model ----
(***************************************************************************)
(* Model of the MCP mock server: the StreamingService (WebSocket           *)
(* connection registry and self-rescheduling stream timers, streaming.js)  *)
(* and the MCPServer request handler for the /mcp endpoint (server.js)     *)
(* with the tool executor (tools.js) acting on the mock data store.        *)
(*                                                                         *)
(* JavaScript objects are records; an absent key is a key outside the      *)
(* record's DOMAIN.  JSON scalars that may be null or absent are carried   *)
(* as their JSON text ("null", "7", "\"abc\"").                            *)
(***************************************************************************)
EXTENDS Integers, Sequences, FiniteSets, TLC

VARIABLES
    clients,        \* StreamingService.clients: clientId -> clientInfo
    nextClientId,   \* number of connections accepted so far (uuidv4 is fresh)
    streams,        \* StreamingService.streams: streamId -> stream object
    nextStreamId,   \* number of stream ids stored so far (uuidv4 is fresh)
    timers,         \* stream id -> number of pending setTimeout callbacks of
                    \* that stream (ids with none are not in the domain)
    out,            \* the sendToClient calls made by the handler that ran last
    handled,        \* which handler ran last, and for which client / stream
                    \* (start_stream also records the streamType it was sent)
    mockData,       \* MCPServer.mockData: the in-memory data store
    sse,            \* SSE channels opened by GET /mcp: channel -> heartbeat state
    req,            \* the HTTP request handled last
    res,            \* the response written for it
    server,         \* MCPServer lifecycle: state "created" (constructed, not
                    \* started) | "listening" | "closing" (close() was called,
                    \* its `resolved` flag is false) | "closed" (close()
                    \* resolved); resolves, the calls of the promise's resolve();
                    \* pending, the callbacks of close() still to run
                    \* ("callback" of server.close, "force", "timeout");
                    \* forceAt and timeoutAt, the expiry of those two timers
    now,            \* the event loop's clock, in ms since the server started
    due,            \* stream id -> [at: the time its pending setTimeout expires,
                    \* fired: events its timer chain has delivered so far]
    stocks          \* stream id -> the `stocks` object of streamStockPrices'
                    \* closure (symbol -> price, in hundredths) with the number
                    \* of updates made to it; kept for the streams started by
                    \* StartStockStream

streamVars == <<clients, nextClientId, streams, nextStreamId, timers, out, handled>>

httpVars == <<mockData, sse, req, res>>

procVars == <<server, now, due, stocks>>

vars == <<clients, nextClientId, streams, nextStreamId, timers, out, handled,
          mockData, sse, req, res, server, now, due, stocks>>

----------------------------------------------------------------------------
(* Bounds *)

MaxClients == 2

MaxStreams == 2

ClientIds == 1..MaxClients

StreamIds == 1..MaxStreams

----------------------------------------------------------------------------
(* streaming.js: helpers *)

validStreams == {"user_activity", "analytics", "chat", "notifications"}

\* A validity test that lets every label through.
isValidStreamAcceptsAll(stream) == TRUE

isValidStream(stream) == stream \in validStreams

validTypes == {"user_activity", "analytics", "chat_simulation", "sensor_data",
               "log_events", "stock_prices"}

\* A validity test that lets every streamType through.
isValidStreamTypeAcceptsAll(streamType) == TRUE

isValidStreamType(streamType) == streamType \in validTypes

getAvailableStreams ==
    <<"user_activity", "analytics", "chat_simulation", "sensor_data",
      "log_events", "stock_prices">>

\* sendToClient: the message goes on the socket only if the client is still
\* in the map and its socket is OPEN; otherwise the call does nothing.
sendToClient(cls, clientId, message) ==
    <<[to |-> clientId, msg |-> message,
       sent |-> (clientId \in DOMAIN cls /\ cls[clientId].readyState = "OPEN")]>>

\* An error path that only logs.
sendErrorLogsOnly(cls, clientId, message) == <<>>

sendError(cls, clientId, message) ==
    sendToClient(cls, clientId, [type |-> "error", message |-> message])

\* `config.interval || <default>` of the six stream* methods.
DefaultInterval(type) ==
    CASE type = "user_activity"   -> 2000
      [] type = "analytics"       -> 5000
      [] type = "chat_simulation" -> 3000
      [] type = "sensor_data"     -> 1000
      [] type = "log_events"      -> 2000
      [] type = "stock_prices"    -> 1500

StreamInterval(type, config) ==
    IF config.interval # 0 THEN config.interval ELSE DefaultInterval(type)

\* The kinds whose callbacks add a random extra to the interval.
JitteredKinds == {"user_activity", "chat_simulation", "log_events"}

\* The factor of `Math.random() * <factor>` in the re-arming setTimeout of
\* sendActivity, sendMessage and sendLogEvent; the other callbacks add nothing.
Jitter(type) ==
    CASE type = "user_activity"   -> 1000
      [] type = "chat_simulation" -> 2000
      [] type = "log_events"      -> 1000
      [] OTHER                    -> 0

\* The delay of the re-arming setTimeout for a draw u of Math.random(), in
\* thousandths: interval + Math.random() * <factor>, in whole ms.
NextDelay(type, config, u) ==
    StreamInterval(type, config) + (u * Jitter(type)) \div 1000

\* The `type` field each stream* method puts on the events it emits.
EventType(type) ==
    CASE type = "user_activity"   -> "user_activity"
      [] type = "analytics"       -> "analytics"
      [] type = "chat_simulation" -> "chat_message"
      [] type = "sensor_data"     -> "sensor_data"
      [] type = "log_events"      -> "log_event"
      [] type = "stock_prices"    -> "stock_price"

\* A first timer that waits two seconds.
FirstDelayLong(type) == 2000

\* Delay of the first setTimeout of each stream* method.
FirstDelay(type) == IF type = "sensor_data" THEN 500 ELSE 1000

IsEvent(message) == "data" \in DOMAIN message

----------------------------------------------------------------------------
(* Inputs *)

\* config of a start_stream message: absent or {} (interval 0 stands for
\* "no interval", which `||` treats like 0), null, or {interval: 1000}.
DefaultConfig == [isNull |-> FALSE, interval |-> 0]

NullConfig == [isNull |-> TRUE, interval |-> 0]

\* start_stream messages tried: <<streamType, config>>.
StartInputs ==
    { <<"user_activity", DefaultConfig>>,
      <<"sensor_data", NullConfig>>,
      <<"bogus", DefaultConfig>> }

\* sensor_data streams with an explicit interval.
SensorInputs ==
    { <<"sensor_data", [isNull |-> FALSE, interval |-> 1000]>> }

\* start_stream messages of jittered and unjittered kinds, with the default
\* interval and with a client-supplied one.
CadenceInputs ==
    { <<"user_activity", DefaultConfig>>,
      <<"user_activity", [isNull |-> FALSE, interval |-> 1000]>>,
      <<"chat_simulation", DefaultConfig>>,
      <<"log_events", DefaultConfig>>,
      <<"analytics", [isNull |-> FALSE, interval |-> 1000]>>,
      <<"stock_prices", DefaultConfig>> }

\* start_stream messages for each of the six kinds, with no config.
KindInputs == {<<t, DefaultConfig>> : t \in validTypes}

TopicInputs == {"chat", "bogus"}

MalformedInputs == {"unparseable", "null", "unknown_type"}

----------------------------------------------------------------------------
(* streaming.js: state after `new StreamingService(server)` + initialize() *)

Without(f, k) == [x \in DOMAIN f \ {k} |-> f[x]]

With(f, k, v) == [x \in DOMAIN f \cup {k} |-> IF x = k THEN v ELSE f[x]]

StreamInit ==
    /\ clients = <<>>
    /\ nextClientId = 0
    /\ streams = <<>>
    /\ nextStreamId = 0
    /\ timers = <<>>
    /\ out = <<>>
    /\ handled = [op |-> "init", client |-> 0, stream |-> 0]

\* A message event is delivered only on a registered socket that is OPEN;
\* handleClientMessage returns at once when the client is not in the map.
CanReceive(clientId) ==
    clientId \in DOMAIN clients /\ clients[clientId].readyState = "OPEN"

----------------------------------------------------------------------------
(* wss.on('connection') *)

\* An id generator that hands out the same id every time.
uuidv4Constant(used) == 1

\* uuidv4(): an id no earlier call returned; ids are numbered in the order
\* they are generated, `used` being how many were generated so far.
uuidv4(used) == used + 1

Connect ==
    /\ server.state = "listening"
    /\ nextClientId < MaxClients
    /\ LET clientId == uuidv4(nextClientId)
           cls == With(clients, clientId,
                       [subscriptions |-> {}, readyState |-> "OPEN"])
       IN /\ clients' = cls
          /\ nextClientId' = clientId
          /\ out' = sendToClient(cls, clientId,
                        [type |-> "connection", clientId |-> clientId,
                         availableStreams |-> getAvailableStreams])
          /\ handled' = [op |-> "connection", client |-> clientId, stream |-> 0]
    /\ UNCHANGED <<streams, nextStreamId, timers, httpVars, procVars>>

(* ws.on('message') -> handleClientMessage -> handleSubscribe *)
Subscribe(clientId, stream) ==
    /\ CanReceive(clientId)
    /\ IF ~isValidStream(stream)
       THEN /\ out' = sendError(clients, clientId, "Invalid stream: " \o stream)
            /\ UNCHANGED clients
       ELSE /\ clients' = [clients EXCEPT ![clientId].subscriptions = @ \cup {stream}]
            /\ out' = sendToClient(clients, clientId,
                          [type |-> "subscribed", stream |-> stream])
    /\ handled' = [op |-> "subscribe", client |-> clientId, stream |-> 0]
    /\ UNCHANGED <<nextClientId, streams, nextStreamId, timers, httpVars, procVars>>

(* ws.on('message') -> handleClientMessage -> handleUnsubscribe *)
Unsubscribe(clientId, stream) ==
    /\ CanReceive(clientId)
    /\ clients' = [clients EXCEPT ![clientId].subscriptions = @ \ {stream}]
    /\ out' = sendToClient(clients, clientId,
                  [type |-> "unsubscribed", stream |-> stream])
    /\ handled' = [op |-> "unsubscribe", client |-> clientId, stream |-> 0]
    /\ UNCHANGED <<nextClientId, streams, nextStreamId, timers, httpVars, procVars>>

\* startStreaming + stream<Kind>: returns when the stream is not in the map
\* or not active; the switch starts a stream* method for the six kinds only;
\* that method reads config.interval (a TypeError when config is null) and
\* arms the first timer with a closure over the stream object.
StartStreamingThrows(strs, streamId) ==
    /\ streamId \in DOMAIN strs
    /\ strs[streamId].active
    /\ strs[streamId].config.isNull

\* setTimeout(callback, delay) with a callback of the stream: one more
\* pending callback for it.
setTimeout(tms, streamId) ==
    With(tms, streamId, IF streamId \in DOMAIN tms THEN tms[streamId] + 1 ELSE 1)

\* A pending callback of the stream is taken off the timer queue to run.
Expire(tms, streamId) ==
    IF tms[streamId] = 1 THEN Without(tms, streamId)
    ELSE [tms EXCEPT ![streamId] = @ - 1]

startStreaming(strs, tms, streamId) ==
    IF streamId \notin DOMAIN strs \/ ~strs[streamId].active
       \/ strs[streamId].type \notin validTypes
       \/ strs[streamId].config.isNull
    THEN tms
    ELSE setTimeout(tms, streamId)

(* handleStartStream, but for what it leaves alone outside the service *)
handleStartStream(clientId, streamType, config) ==
    /\ CanReceive(clientId)
    /\ IF ~isValidStreamType(streamType)
       THEN /\ out' = sendError(clients, clientId,
                          "Invalid stream type: " \o streamType)
            /\ handled' = [op |-> "start_stream", client |-> clientId, stream |-> 0,
                           streamType |-> streamType]
            /\ UNCHANGED <<streams, nextStreamId, timers>>
       ELSE /\ nextStreamId < MaxStreams
            /\ LET streamId == uuidv4(nextStreamId)
                   strs == With(streams, streamId,
                                [id |-> streamId, type |-> streamType,
                                 clientId |-> clientId, config |-> config,
                                 startedAt |-> now, active |-> TRUE])
                   started == sendToClient(clients, clientId,
                                  [type |-> "stream_started", streamId |-> streamId,
                                   streamType |-> streamType])
               IN /\ streams' = strs
                  /\ nextStreamId' = streamId
                  /\ timers' = startStreaming(strs, timers, streamId)
                  \* a throw inside startStreaming reaches the catch of
                  \* ws.on('message'), which reports 'Invalid JSON message'
                  /\ out' = IF StartStreamingThrows(strs, streamId)
                            THEN started \o sendError(clients, clientId,
                                                      "Invalid JSON message")
                            ELSE IF streamType \notin validTypes
                            THEN started \o sendError(clients, clientId,
                                     "Unsupported stream type: " \o streamType)
                            ELSE started
                  /\ handled' = [op |-> "start_stream", client |-> clientId,
                                 stream |-> streamId, streamType |-> streamType]
    /\ UNCHANGED <<clients, nextClientId, httpVars>>

(* ws.on('message') -> handleClientMessage -> handleStartStream *)
StartStream(clientId, streamType, config) ==
    /\ handleStartStream(clientId, streamType, config)
    /\ UNCHANGED procVars

\* A test that looks the stream up but forgets to compare its owner.
StopAllowedAnyOwner(clientId, streamId) == streamId \in DOMAIN streams

\* The ownership test of handleStopStream.
StopAllowed(clientId, streamId) ==
    streamId \in DOMAIN streams /\ streams[streamId].clientId = clientId

\* A stop that clears the active flag but forgets streams.delete(streamId).
StreamsAfterStopKeepsEntry(streamId) ==
    [streams EXCEPT ![streamId].active = FALSE]

\* A stop that drops every stream of the stopped stream's connection.
StreamsAfterStopOfOwner(streamId) ==
    [t \in {x \in DOMAIN streams :
                streams[x].clientId # streams[streamId].clientId} |-> streams[t]]

\* handleStopStream: stream.active = false; this.streams.delete(streamId)
StreamsAfterStop(streamId) == Without(streams, streamId)

(* ws.on('message') -> handleClientMessage -> handleStopStream *)
StopStream(clientId, streamId) ==
    /\ CanReceive(clientId)
    \* ids tried: those handed out so far, and 0 for an id never handed out
    /\ streamId <= nextStreamId
    /\ IF ~StopAllowed(clientId, streamId)
       THEN /\ out' = sendError(clients, clientId, "Stream not found or unauthorized: " \o ToString(streamId))
            /\ UNCHANGED streams
       ELSE /\ streams' = StreamsAfterStop(streamId)
            /\ out' = sendToClient(clients, clientId,
                          [type |-> "stream_stopped", streamId |-> streamId])
    /\ handled' = [op |-> "stop_stream", client |-> clientId, stream |-> streamId]
    /\ UNCHANGED <<clients, nextClientId, nextStreamId, timers, httpVars, procVars>>

(* ws.on('message') -> handleClientMessage, case 'ping' *)
Ping(clientId) ==
    /\ CanReceive(clientId)
    /\ out' = sendToClient(clients, clientId, [type |-> "pong"])
    /\ handled' = [op |-> "ping", client |-> clientId, stream |-> 0]
    /\ UNCHANGED <<clients, nextClientId, streams, nextStreamId, timers, httpVars, procVars>>

(* ws.on('message') with data that is not JSON, that parses to null (reading
   message.type throws), or whose type is none of the five known ones *)
Malformed(clientId, data) ==
    /\ CanReceive(clientId)
    /\ out' = sendError(clients, clientId,
                  IF data = "unknown_type" THEN "Unknown message type: bogus"
                  ELSE "Invalid JSON message")
    /\ handled' = [op |-> "malformed", client |-> clientId, stream |-> 0]
    /\ UNCHANGED <<clients, nextClientId, streams, nextStreamId, timers, httpVars, procVars>>

\* The guard `if (!this.streams.has(streamId)) return;` that opens every
\* timer callback (sendActivity, sendAnalytics, sendMessage, sendSensorData,
\* sendLogEvent, sendStockUpdate).
TimerMayEmit(streamId) == streamId \in DOMAIN streams

\* Math.random(), in thousandths: the draws tried.
RandomInputs == {0, 999}

\* (Math.random() * span + low).toFixed(1), in tenths: toFixed rounds to the
\* nearest tenth (it returns the digits as a string; the number of tenths
\* stands for that string here).
toFixed1(u, span, low) == (u * span * 10 + 500) \div 1000 + low * 10

\* The data object of sendSensorData for two draws of Math.random().
sensorData(u1, u2) ==
    [temperature |-> toFixed1(u1, 40, 10), humidity |-> toFixed1(u2, 60, 20)]

\* The data objects a callback of the stream may build: random sensor
\* readings for sensor_data, an opaque payload named after the event type
\* for the other kinds.
EventDataOf(streamId) ==
    IF streamId \notin DOMAIN streams THEN {"none"}
    ELSE IF streams[streamId].type = "sensor_data"
    THEN {sensorData(u1, u2) : u1 \in RandomInputs, u2 \in RandomInputs}
    ELSE {EventType(streams[streamId].type)}

\* A callback that sends to the connection registered first.
EventRecipientFirstClient(streamId) == 1

\* this.sendToClient(stream.clientId, ...): the recipient of a stream's events.
EventRecipient(streamId) == streams[streamId].clientId

\* A callback that arms two timers after each event.
RearmTwice(tms, strs, streamId) ==
    IF streamId \in DOMAIN strs
    THEN setTimeout(setTimeout(tms, streamId), streamId)
    ELSE tms

\* `if (this.streams.has(streamId)) { setTimeout(send..., interval) }` that
\* ends every timer callback.
Rearm(tms, strs, streamId) ==
    IF streamId \in DOMAIN strs THEN setTimeout(tms, streamId) ELSE tms

(* The body of a stream timer callback (sendActivity, ..., sendSensorData):
   it returns if the stream left the map; otherwise it sends one event to
   stream.clientId and, the stream still being in the map, arms the next
   timer. *)
StreamCallback(streamId, data) ==
    /\ IF ~TimerMayEmit(streamId)
       THEN /\ timers' = Expire(timers, streamId)
            /\ out' = <<>>
            /\ handled' = [op |-> "timer", client |-> 0, stream |-> streamId]
       ELSE /\ timers' = Rearm(Expire(timers, streamId), streams, streamId)
            /\ out' = sendToClient(clients, EventRecipient(streamId),
                          [type |-> EventType(streams[streamId].type),
                           streamId |-> streamId,
                           data |-> data])
            /\ handled' = [op |-> "timer", client |-> streams[streamId].clientId,
                           stream |-> streamId]
    /\ UNCHANGED <<clients, nextClientId, streams, nextStreamId, httpVars>>

(* A pending stream timer fires. *)
TimerFire(streamId) ==
    /\ streamId \in DOMAIN timers
    /\ \E data \in EventDataOf(streamId) : StreamCallback(streamId, data)
    /\ UNCHANGED procVars

(* The socket starts closing (the peer's close frame arrived, or a socket
   error): the ws library sets readyState to CLOSING before the close event.
   With an error, ws.on('error') runs first and only logs. *)
SocketClosing(clientId, withError) ==
    /\ clientId \in DOMAIN clients
    /\ clients[clientId].readyState = "OPEN"
    /\ clients' = [clients EXCEPT ![clientId].readyState = "CLOSING"]
    /\ out' = <<>>
    /\ handled' = [op |-> IF withError THEN "error" ELSE "closing",
                   client |-> clientId, stream |-> 0]
    /\ UNCHANGED <<nextClientId, streams, nextStreamId, timers, httpVars, procVars>>

\* What ws.on('close') leaves in the streams map.
StreamsAfterClose(clientId) == streams

\* A cleanup that wipes the registry when it does not find the connection.
ClientsAfterCloseOrReset(cls, clientId) ==
    IF clientId \in DOMAIN cls THEN Without(cls, clientId) ELSE <<>>

\* this.clients.delete(clientId): no effect when the key is absent.
ClientsAfterClose(cls, clientId) == Without(cls, clientId)

(* ws.on('close'): this.clients.delete(clientId) *)
Close(clientId) ==
    /\ clientId \in DOMAIN clients
    /\ clients' = ClientsAfterClose(clients, clientId)
    /\ streams' = StreamsAfterClose(clientId)
    /\ out' = <<>>
    /\ handled' = [op |-> "close", client |-> clientId, stream |-> 0]
    /\ UNCHANGED <<nextClientId, nextStreamId, timers, httpVars, procVars>>

(* The body of ws.on('close') run once more for a connection whose close
   was already handled *)
CloseAgain(clientId) ==
    /\ clientId \in 1..nextClientId
    /\ clientId \notin DOMAIN clients
    /\ clients' = ClientsAfterClose(clients, clientId)
    /\ streams' = StreamsAfterClose(clientId)
    /\ out' = <<>>
    /\ handled' = [op |-> "close", client |-> clientId, stream |-> 0,
                   repeated |-> TRUE]
    /\ UNCHANGED <<nextClientId, nextStreamId, timers, httpVars, procVars>>

\* broadcast's default `streamFilter = null`.
NoFilter == "null"

\* `!streamFilter`: null and the empty string are falsy.
Falsy(streamFilter) == streamFilter = NoFilter \/ streamFilter = ""

\* this.clients.forEach(...) of broadcast, over the ids 1..n in the order
\* the connections were stored.
RECURSIVE broadcastUpTo(_, _, _, _)
broadcastUpTo(cls, message, streamFilter, n) ==
    IF n = 0 THEN <<>>
    ELSE broadcastUpTo(cls, message, streamFilter, n - 1)
         \o (IF n \in DOMAIN cls
                 /\ (Falsy(streamFilter) \/ streamFilter \in cls[n].subscriptions)
              THEN sendToClient(cls, n, message)
              ELSE <<>>)

\* A broadcast that ignores its filter.
broadcastToAll(cls, message, streamFilter) ==
    broadcastUpTo(cls, message, NoFilter, MaxClients)

broadcast(cls, message, streamFilter) ==
    broadcastUpTo(cls, message, streamFilter, MaxClients)

\* Filters tried: none, a topic, the empty string.
FilterInputs == {NoFilter, "chat", ""}

(* A call of streamingService.broadcast(message, streamFilter) *)
Broadcast(streamFilter) ==
    /\ out' = broadcast(clients, [type |-> "announcement"], streamFilter)
    /\ handled' = [op |-> "broadcast", client |-> 0, stream |-> 0,
                   streamFilter |-> streamFilter]
    /\ UNCHANGED <<clients, nextClientId, streams, nextStreamId, timers,
                   httpVars, procVars>>

----------------------------------------------------------------------------
(* JSON values of request bodies and tool arguments *)

Undefined == "undefined"

JNull == [j |-> "null"]

JNum == [j |-> "number"]

JObj(o) == [j |-> "object", obj |-> o]

IsObj(v) == v.j = "object"

Has(v, k) == IsObj(v) /\ k \in DOMAIN v.obj

\* v[k] for a string-valued key; undefined when absent (v is not null).
Arg(v, k) == IF Has(v, k) THEN v.obj[k] ELSE Undefined

\* v[k] for a number-valued key; NoNum stands for undefined.
NoNum == 0 - 1

ArgNum(v, k) == IF Has(v, k) THEN v.obj[k] ELSE NoNum

NumText(n) == IF n = NoNum THEN Undefined ELSE ToString(n)

----------------------------------------------------------------------------
(* mockData.js: getMockData *)

getMockData ==
    [users |-> << [id |-> 1, name |-> "John Doe", email |-> "john.doe@example.com",
                   role |-> "admin"],
                  [id |-> 2, name |-> "Jane Smith", email |-> "jane.smith@example.com",
                   role |-> "user"],
                  [id |-> 3, name |-> "Bob Johnson", email |-> "bob.johnson@example.com",
                   role |-> "moderator"] >>,
     posts |-> << [id |-> 1, title |-> "Getting Started with MCP"],
                  [id |-> 2, title |-> "Advanced MCP Patterns"] >>,
     products |-> << [id |-> 1, price |-> 9999], [id |-> 2, price |-> 2999] >>,
     orders |-> << [userId |-> 1, total |-> 9999] >>]

TotalRecords(d) == Len(d.users) + Len(d.posts) + Len(d.orders)

----------------------------------------------------------------------------
(* tools.js: the tool handlers.  Each returns [ok, text | message, data]:
   ok = FALSE is a thrown Error with that message, data the store afterwards.
   Prices are in cents.  *)

Returned(text, d) == [ok |-> TRUE, text |-> text, data |-> d]

Thrown(message, d) == [ok |-> FALSE, message |-> message, data |-> d]

\* Reading a property of null args throws a TypeError.
NullRead(k, d) ==
    Thrown("Cannot read properties of null (reading '" \o k \o "')", d)

\* Array.prototype.findIndex on users by id: 0 stands for -1 (not found).
FindUser(users, id) ==
    IF \E i \in 1..Len(users) : users[i].id = id
    THEN CHOOSE i \in 1..Len(users) :
            /\ users[i].id = id
            /\ \A k \in 1..(i - 1) : users[k].id # id
    ELSE 0

handleGetUsers(args, d) ==
    IF ~IsObj(args) THEN NullRead("role", d) ELSE Returned("users", d)

\* handleCreateUser validates nothing: a missing name or email is stored as
\* undefined.
handleCreateUser(args, d) ==
    IF ~IsObj(args) THEN NullRead("name", d)
    ELSE LET newUser == [id    |-> Len(d.users) + 1,
                         name  |-> Arg(args, "name"),
                         email |-> Arg(args, "email"),
                         role  |-> IF Has(args, "role") THEN args.obj.role ELSE "user"]
         IN Returned("User created successfully",
                     [d EXCEPT !.users = Append(@, newUser)])

handleUpdateUser(args, d) ==
    IF ~IsObj(args) THEN NullRead("id", d)
    ELSE LET userIndex == FindUser(d.users, ArgNum(args, "id"))
         IN IF userIndex = 0
            THEN Thrown("User with ID " \o NumText(ArgNum(args, "id")) \o " not found", d)
            ELSE LET user == d.users[userIndex]
                     updatedUser ==
                        [id    |-> IF Has(args, "id") THEN args.obj.id ELSE user.id,
                         name  |-> IF Has(args, "name") THEN args.obj.name ELSE user.name,
                         email |-> IF Has(args, "email") THEN args.obj.email ELSE user.email,
                         role  |-> IF Has(args, "role") THEN args.obj.role ELSE user.role]
                 IN Returned("User updated successfully",
                             [d EXCEPT !.users[userIndex] = updatedUser])

handleDeleteUser(args, d) ==
    IF ~IsObj(args) THEN NullRead("id", d)
    ELSE LET userIndex == FindUser(d.users, ArgNum(args, "id"))
         IN IF userIndex = 0
            THEN Thrown("User with ID " \o NumText(ArgNum(args, "id")) \o " not found", d)
            ELSE Returned("User deleted successfully",
                          [d EXCEPT !.users =
                              SubSeq(@, 1, userIndex - 1)
                              \o SubSeq(@, userIndex + 1, Len(@))])

handleGetPosts(args, d) ==
    IF ~IsObj(args) THEN NullRead("status", d) ELSE Returned("posts", d)

handleCreatePost(args, d) ==
    IF ~IsObj(args) THEN NullRead("title", d)
    ELSE LET newPost == [id |-> Len(d.posts) + 1, title |-> Arg(args, "title")]
         IN Returned("Post created successfully",
                     [d EXCEPT !.posts = Append(@, newPost)])

handleGetProducts(args, d) ==
    IF ~IsObj(args) THEN NullRead("category", d) ELSE Returned("products", d)

\* price * quantity of one order item; 0 for an unknown product.
ItemTotal(products, item) ==
    IF \E i \in 1..Len(products) : products[i].id = item.productId
    THEN (CHOOSE p \in {products[i] : i \in 1..Len(products)} :
             p.id = item.productId).price * item.quantity
    ELSE 0

RECURSIVE OrderTotal(_, _)
OrderTotal(products, items) ==
    IF items = <<>> THEN 0
    ELSE ItemTotal(products, Head(items)) + OrderTotal(products, Tail(items))

\* args.products.reduce(...) is evaluated while the order object is built,
\* before the push.
handleProcessOrder(args, d) ==
    IF ~IsObj(args) THEN NullRead("userId", d)
    ELSE IF ~Has(args, "products")
    THEN Thrown("Cannot read properties of undefined (reading 'reduce')", d)
    ELSE LET order == [userId |-> ArgNum(args, "userId"),
                       total  |-> OrderTotal(d.products, args.obj.products)]
         IN Returned("Order processed successfully",
                     [d EXCEPT !.orders = Append(@, order)])

handleGetAnalytics(args, d) ==
    IF ~IsObj(args) THEN NullRead("type", d) ELSE Returned("analytics", d)

handleGenerateReport(args, d) ==
    IF ~IsObj(args) THEN NullRead("reportType", d) ELSE Returned("report", d)

handleValidateEmail(args, d) ==
    IF ~IsObj(args) THEN NullRead("email", d) ELSE Returned("email", d)

handleGenerateUUID(args, d) ==
    IF ~IsObj(args) THEN NullRead("version", d) ELSE Returned("uuid", d)

\* new Date(undefined) is an invalid date; with the default format 'iso'
\* toISOString throws a RangeError.
handleFormatDate(args, d) ==
    IF ~IsObj(args) THEN NullRead("date", d)
    ELSE IF ~Has(args, "date") /\ Arg(args, "format") \in {Undefined, "iso"}
    THEN Thrown("Invalid time value", d)
    ELSE Returned("date", d)

handleAnalyzeSentiment(args, d) ==
    IF ~IsObj(args) THEN NullRead("text", d)
    ELSE IF ~Has(args, "text")
    THEN Thrown("Cannot read properties of undefined (reading 'toLowerCase')", d)
    ELSE Returned("sentiment", d)

handleClassifyText(args, d) ==
    IF ~IsObj(args) THEN NullRead("text", d)
    ELSE IF ~Has(args, "text")
    THEN Thrown("Cannot read properties of undefined (reading 'toLowerCase')", d)
    ELSE Returned("classification", d)

ToolNames ==
    {"get_users", "create_user", "update_user", "delete_user", "get_posts",
     "create_post", "get_products", "process_order", "get_analytics",
     "generate_report", "validate_email", "generate_uuid", "format_date",
     "analyze_sentiment", "classify_text"}

\* A switch without a default arm: the result stays undefined and is returned.
UnknownToolReturns(toolName, d) == Returned(Undefined, d)

\* The default arm of executeTool's switch.
UnknownTool(toolName, d) == Thrown("Unknown tool: " \o toolName, d)

(* tools.js: executeTool *)
executeTool(toolName, d, args) ==
    CASE toolName = "get_users"         -> handleGetUsers(args, d)
      [] toolName = "create_user"       -> handleCreateUser(args, d)
      [] toolName = "update_user"       -> handleUpdateUser(args, d)
      [] toolName = "delete_user"       -> handleDeleteUser(args, d)
      [] toolName = "get_posts"         -> handleGetPosts(args, d)
      [] toolName = "create_post"       -> handleCreatePost(args, d)
      [] toolName = "get_products"      -> handleGetProducts(args, d)
      [] toolName = "process_order"     -> handleProcessOrder(args, d)
      [] toolName = "get_analytics"     -> handleGetAnalytics(args, d)
      [] toolName = "generate_report"   -> handleGenerateReport(args, d)
      [] toolName = "validate_email"    -> handleValidateEmail(args, d)
      [] toolName = "generate_uuid"     -> handleGenerateUUID(args, d)
      [] toolName = "format_date"       -> handleFormatDate(args, d)
      [] toolName = "analyze_sentiment" -> handleAnalyzeSentiment(args, d)
      [] toolName = "classify_text"     -> handleClassifyText(args, d)
      [] OTHER                          -> UnknownTool(toolName, d)

----------------------------------------------------------------------------
(* server.js: MCPServer.handleRequest and handleMCPJsonRpc for path /mcp.
   A response is [status, allowMethods, contentType, body, frames, ended]:
   body is the sequence of JSON documents passed to res.end, frames the
   sequence of documents written as SSE `data:` frames.  *)

EmptyObj == JObj(<<>>)

\* Access-Control-Allow-Methods set by handleRequest with res.setHeader.
ServerCorsMethods == {"GET", "POST", "OPTIONS"}

\* Access-Control-Allow-Methods of handleMCPJsonRpc's corsHeaders.
McpCorsMethods == {"GET", "POST", "OPTIONS", "DELETE"}

Response(status, methods, contentType, body, frames, ended) ==
    [status |-> status, allowMethods |-> methods, contentType |-> contentType,
     body |-> body, frames |-> frames, ended |-> ended]

\* acceptHeader.includes(mediaType); the header is the set of media types
\* it lists, the empty set for an absent header.
includes(acceptHeader, mediaType) == mediaType \in acceptHeader

\* A server that always answers with its own protocol version.
protocolVersionOfFixed(r) == "2024-11-05"

\* req.headers['mcp-protocol-version'] || '2024-11-05': r.version is the
\* header's value, Undefined when the request has no such header; `||` takes
\* the default for undefined and for the empty string alike.
protocolVersionOf(r) ==
    IF r.version = Undefined \/ r.version = "" THEN "2024-11-05" ELSE r.version

\* A JSON-RPC envelope as JSON.stringify writes it: an undefined id is
\* dropped from the document.
Envelope(id, key, payload) ==
    IF id = Undefined
    THEN ("jsonrpc" :> "2.0") @@ (key :> payload)
    ELSE ("jsonrpc" :> "2.0") @@ ("id" :> id) @@ (key :> payload)

\* A catch that reports the parse failure as an invalid request.
ParseErrorResponseInvalidRequest ==
    [jsonrpc |-> "2.0", id |-> "null",
     error |-> [code |-> -32600, message |-> "Invalid Request"]]

ParseErrorResponse ==
    [jsonrpc |-> "2.0", id |-> "null",
     error |-> [code |-> -32700, message |-> "Parse error"]]

\* tools.js getTools, as tools/list maps it: name and the schema's `required`.
getTools ==
    << [name |-> "get_users",         required |-> {}],
       [name |-> "create_user",       required |-> {"name", "email"}],
       [name |-> "update_user",       required |-> {"id"}],
       [name |-> "delete_user",       required |-> {"id"}],
       [name |-> "get_posts",         required |-> {}],
       [name |-> "create_post",       required |-> {"title", "content", "authorId"}],
       [name |-> "get_products",      required |-> {}],
       [name |-> "process_order",     required |-> {"userId", "products"}],
       [name |-> "get_analytics",     required |-> {}],
       [name |-> "generate_report",   required |-> {"reportType"}],
       [name |-> "validate_email",    required |-> {"email"}],
       [name |-> "generate_uuid",     required |-> {}],
       [name |-> "format_date",       required |-> {"date"}],
       [name |-> "analyze_sentiment", required |-> {"text"}],
       [name |-> "classify_text",     required |-> {"text"}] >>

\* `const { name, arguments: args = {} } = request.params || {}`
CallParams(request) ==
    IF Has(request, "params") /\ IsObj(request.obj.params)
    THEN request.obj.params ELSE EmptyObj

CallArgs(request) ==
    IF Has(CallParams(request), "arguments")
    THEN CallParams(request).obj.arguments ELSE EmptyObj

\* Error code of the catch around executeTool in the tools/call arm.
ToolErrorCode == -32000

\* A catch that builds no error member.
ToolCallEnvelopeNoError(id, outcome) ==
    IF outcome.ok
    THEN Envelope(id, "result",
                  [content |-> << [type |-> "text", text |-> outcome.text] >>])
    ELSE Envelope(id, "message", outcome.message)

\* A catch that hides the failure's message behind a generic one.
ToolCallEnvelopeGenericMessage(id, outcome) ==
    IF outcome.ok
    THEN Envelope(id, "result",
                  [content |-> << [type |-> "text", text |-> outcome.text] >>])
    ELSE Envelope(id, "error",
                  [code |-> ToolErrorCode, message |-> "Tool execution failed"])

\* The envelope of the tools/call arm for an executeTool outcome.
ToolCallEnvelope(id, outcome) ==
    IF outcome.ok
    THEN Envelope(id, "result",
                  [content |-> << [type |-> "text", text |-> outcome.text] >>])
    ELSE Envelope(id, "error",
                  [code |-> ToolErrorCode, message |-> outcome.message])

\* An id that defaults to null when the request has none.
ResponseIdNullDefault(request) ==
    IF Has(request, "id") THEN request.obj.id ELSE "null"

\* The id every arm of the method switch copies from the request.
ResponseId(request) == Arg(request, "id")

\* The result of the initialize arm.
InitializeResult(protocolVersion) ==
    [protocolVersion |-> protocolVersion,
     capabilities |-> [tools |-> [listChanged |-> TRUE]],
     serverInfo |-> [name |-> "mcp-mock-server", version |-> "0.0.1"]]

\* A tools/list that returns the names only.
ToolsListResultNamesOnly ==
    [tools |-> [i \in 1..Len(getTools) |-> [name |-> getTools[i].name]]]

\* The result of the tools/list arm: this.tools (the constructor's
\* getTools(), never reassigned) mapped to its descriptors.
ToolsListResult ==
    [tools |-> [i \in 1..Len(getTools) |->
                   [name |-> getTools[i].name, required |-> getTools[i].required]]]

\* An error that does not say which method was asked for.
MethodNotFoundErrorNoName(method) ==
    [code |-> -32601, message |-> "Method not found"]

\* The error of the switch's default arm.
MethodNotFoundError(method) ==
    [code |-> -32601, message |-> "Method not found: " \o method]

\* The method switch: [response, data].
DispatchRpc(request, protocolVersion, d) ==
    LET method == Arg(request, "method")
        id == ResponseId(request)
    IN CASE method = "initialize" ->
              [response |-> Envelope(id, "result", InitializeResult(protocolVersion)),
               data |-> d]
         [] method = "tools/list" ->
              [response |-> Envelope(id, "result", ToolsListResult),
               data |-> d]
         [] method = "tools/call" ->
              LET outcome == executeTool(Arg(CallParams(request), "name"), d,
                                         CallArgs(request))
              IN [response |-> ToolCallEnvelope(id, outcome),
                  data |-> outcome.data]
         [] OTHER ->
              [response |-> Envelope(id, "error", MethodNotFoundError(method)),
               data |-> d]

\* A POST branch that skips the Accept test.
PostAcceptableAlways(acceptHeader) == TRUE

\* The Accept test that opens the POST branch.
PostAcceptable(acceptHeader) ==
    includes(acceptHeader, "application/json")
    \/ includes(acceptHeader, "text/event-stream")

\* Whether the try block of the POST branch throws: JSON.parse fails, or
\* the body parses to null and reading request.method throws.
PostThrows(body) == body.parse = "error" \/ body.value.j = "null"

Unparseable == [parse |-> "error", value |-> JNull]

Parsed(v) == [parse |-> "ok", value |-> v]

\* The response of the POST branch's catch.
ParseErrorStatus == 400

\* A preference for SSE only when JSON is not acceptable as well.
PreferSSEUnlessJson(acceptHeader) ==
    includes(acceptHeader, "text/event-stream")
    /\ ~includes(acceptHeader, "application/json")

\* const preferSSE = acceptHeader.includes('text/event-stream')
PreferSSE(acceptHeader) == includes(acceptHeader, "text/event-stream")

\* The POST branch: [res, data].
handlePost(r, d) ==
    IF ~PostAcceptable(r.accept)
    THEN [res |-> Response(406, McpCorsMethods, "application/json",
                           << [error |-> "Accept header must include application/json or text/event-stream"] >>,
                           <<>>, TRUE),
          data |-> d]
    ELSE IF PostThrows(r.body)
    THEN [res |-> Response(ParseErrorStatus, McpCorsMethods, "application/json",
                           << ParseErrorResponse >>, <<>>, TRUE),
          data |-> d]
    ELSE LET got == DispatchRpc(r.body.value, protocolVersionOf(r), d)
             preferSSE == PreferSSE(r.accept)
         IN [res |-> IF preferSSE
                     THEN Response(200, McpCorsMethods, "text/event-stream",
                                   <<>>, << got.response >>, TRUE)
                     ELSE Response(200, McpCorsMethods, "application/json",
                                   << got.response >>, <<>>, TRUE),
             data |-> got.data]

\* A GET branch that opens a channel whatever the Accept header says.
GetAcceptableAlways(acceptHeader) == TRUE

\* The Accept test of the GET branch.
GetAcceptable(acceptHeader) == includes(acceptHeader, "text/event-stream")

\* The SSE channel a GET opens: the heartbeat interval is armed, nothing but
\* the headers has been written.
NewChannel ==
    [heartbeat |-> TRUE, peerOpen |-> TRUE, lastWrite |-> "headers", beats |-> 0]

\* An acknowledgment without a status of 200.
DeleteResponseNoContent ==
    Response(204, McpCorsMethods, "application/json", <<>>, <<>>, TRUE)

\* The response of the DELETE branch.
DeleteResponse ==
    Response(200, McpCorsMethods, "application/json",
             << [message |-> "Session terminated"] >>, <<>>, TRUE)

\* A fallthrough that reports an unknown resource instead.
MethodNotAllowedResponseNotFound ==
    Response(404, McpCorsMethods, "application/json",
             << [error |-> "Not found"] >>, <<>>, TRUE)

\* The response after the last branch: any other verb.
MethodNotAllowedResponse ==
    Response(405, McpCorsMethods, "application/json",
             << [error |-> "Method not allowed"] >>, <<>>, TRUE)

\* handleMCPJsonRpc: [res, data, sse].  A GET that accepts SSE leaves the
\* response open and arms a 30 s heartbeat interval for the new channel.
handleMCPJsonRpc(r, d, channels) ==
    CASE r.method = "OPTIONS" ->
           [res |-> Response(200, McpCorsMethods, "application/json", <<>>, <<>>, TRUE),
            data |-> d, sse |-> channels]
      [] r.method = "GET" ->
           IF ~GetAcceptable(r.accept)
           THEN [res |-> Response(406, McpCorsMethods, "application/json",
                                  << [error |-> "Client must accept text/event-stream"] >>,
                                  <<>>, TRUE),
                 data |-> d, sse |-> channels]
           ELSE [res |-> Response(200, McpCorsMethods, "text/event-stream",
                                  <<>>, <<>>, FALSE),
                 data |-> d,
                 sse |-> Append(channels, NewChannel)]
      [] r.method = "POST" ->
           [res |-> handlePost(r, d).res, data |-> handlePost(r, d).data,
            sse |-> channels]
      [] r.method = "DELETE" ->
           [res |-> DeleteResponse, data |-> d, sse |-> channels]
      [] OTHER ->
           [res |-> MethodNotAllowedResponse, data |-> d, sse |-> channels]

\* handleRequest: the CORS headers and the OPTIONS preflight come first, for
\* every path; only then is /mcp routed to handleMCPJsonRpc.
handleRequest(r, d, channels) ==
    IF r.method = "OPTIONS"
    THEN [res |-> Response(200, ServerCorsMethods, "application/json", <<>>, <<>>, TRUE),
          data |-> d, sse |-> channels]
    ELSE handleMCPJsonRpc(r, d, channels)

----------------------------------------------------------------------------
(* Requests tried on /mcp *)

MaxGrowth == 1

MaxSse == 2

\* Heartbeats counted per SSE channel.
MaxBeats == 2

AcceptInputs ==
    { {}, {"application/json"}, {"text/event-stream"},
      {"application/json", "text/event-stream"}, {"text/html"} }

\* MCP-Protocol-Version: no header, a header with an empty value, a version.
VersionInputs == {Undefined, "", "2025-03-26"}

IdInputs == {Undefined, "null", "7"}

NoParams == [j |-> "absent"]

Opt(k, v, absent) == IF v = absent THEN <<>> ELSE (k :> v)

\* A request object; Undefined / NoParams leave the key out.
Rpc(id, method, params) ==
    JObj(Opt("id", id, Undefined) @@ Opt("method", method, Undefined)
         @@ Opt("params", params, NoParams))

Call(name, args) == JObj(("name" :> name) @@ ("arguments" :> args))

OneItem == << [productId |-> 1, quantity |-> 2] >>

ParamsInputs ==
    { Call("get_users", EmptyObj),
      Call("get_users", JNull),
      Call("create_user", JObj([name |-> "Ann", email |-> "ann@example.com"])),
      Call("create_user", EmptyObj),
      Call("update_user", JObj([id |-> 1, name |-> "Zed"])),
      Call("update_user", JObj([id |-> 99])),
      Call("delete_user", JObj([id |-> 2])),
      Call("delete_user", EmptyObj),
      Call("get_posts", EmptyObj),
      Call("create_post", JObj([title |-> "Hello"])),
      Call("get_products", EmptyObj),
      Call("process_order", JObj([userId |-> 1, products |-> OneItem])),
      Call("process_order", EmptyObj),
      Call("get_analytics", EmptyObj),
      Call("generate_report", EmptyObj),
      Call("validate_email", EmptyObj),
      Call("generate_uuid", EmptyObj),
      Call("format_date", JObj([date |-> "2024-01-15"])),
      Call("format_date", EmptyObj),
      Call("analyze_sentiment", JObj([text |-> "good"])),
      Call("analyze_sentiment", EmptyObj),
      Call("classify_text", JObj([text |-> "code"])),
      Call("no_such_tool", EmptyObj),
      JObj(("name" :> "get_users")),
      EmptyObj,
      JNull,
      NoParams }

\* Bodies tried under every Accept header.
CoreBodyInputs ==
    { Unparseable,
      Parsed(JNull),
      Parsed(Rpc("7", "tools/list", NoParams)),
      Parsed(Rpc("7", "tools/call",
                 Call("create_user", JObj([name |-> "Ann", email |-> "ann@example.com"])))) }

\* Bodies tried with Accept: application/json.
BodyInputs ==
    {Parsed(JNum)}
    \cup {Parsed(Rpc(id, m, NoParams)) :
             id \in IdInputs, m \in {"initialize", "tools/list", "bogus", Undefined}}
    \cup {Parsed(Rpc(id, "tools/call", p)) :
             id \in IdInputs,
             p \in {Call("get_users", EmptyObj), Call("no_such_tool", EmptyObj)}}
    \cup {Parsed(Rpc("7", "tools/call", p)) : p \in ParamsInputs}
    \cup {Parsed(Rpc("7", "initialize", p)) :
             p \in {JNull, EmptyObj, JObj([protocolVersion |-> "2025-06-18"])}}

NoBody == Unparseable

Request(m, a, v, b) == [method |-> m, accept |-> a, version |-> v, body |-> b]

\* Requests that open no SSE channel.
RequestInputs ==
    {Request(m, a, Undefined, NoBody) :
        m \in {"OPTIONS", "DELETE", "PUT", "PATCH"}, a \in {{}, {"application/json"}}}
    \cup {Request("GET", a, Undefined, NoBody) :
             a \in {{}, {"application/json"}, {"text/html"}}}
    \cup {Request("POST", a, Undefined, b) : a \in AcceptInputs, b \in CoreBodyInputs}
    \cup {Request("POST", {"application/json"}, Undefined, b) : b \in BodyInputs}
    \cup {Request("POST", a, v, Parsed(Rpc("7", "initialize", NoParams))) :
             a \in {{"application/json"}, {"text/event-stream"}},
             v \in VersionInputs}

\* GET requests, with and without an Accept header that lists SSE.
SseRequestInputs == {Request("GET", a, Undefined, NoBody) : a \in AcceptInputs}

\* Requests tried while the streaming service is at work.
ServerRequestInputs ==
    {Request(m, {"application/json"}, Undefined, NoBody) :
        m \in {"DELETE", "PUT", "PATCH"}}
    \cup {Request("POST", {"application/json"}, Undefined, Parsed(Rpc("7", m, NoParams))) :
             m \in {"initialize", "tools/list"}}
    \cup {Request("POST", {"application/json"}, Undefined,
                  Parsed(Rpc("7", "tools/call",
                             Call("create_user",
                                  JObj([name |-> "Ann", email |-> "ann@example.com"])))))}

----------------------------------------------------------------------------
(* The HTTP server: state after `new MCPServer()` and start() *)

HttpInit ==
    /\ mockData = getMockData
    /\ sse = <<>>
    /\ req = Request("NONE", {}, Undefined, NoBody)
    /\ res = Response(0, {}, "", <<>>, <<>>, FALSE)

(* http.createServer callback: handleRequest(req, res) for a request to /mcp *)
HttpRequest(r) ==
    LET o == handleRequest(r, mockData, sse)
    IN /\ server.state = "listening"
       /\ TotalRecords(o.data) <= TotalRecords(getMockData) + MaxGrowth
       /\ Len(o.sse) <= MaxSse
       /\ mockData' = o.data
       /\ sse' = o.sse
       /\ req' = r
       /\ res' = o.res
       /\ UNCHANGED <<streamVars, procVars>>

(* The 30 s heartbeat interval of an SSE channel fires: res.write(': heartbeat');
   beats counts the heartbeat frames written to the channel so far *)
SseHeartbeat(ch) ==
    /\ ch \in 1..Len(sse)
    /\ sse[ch].heartbeat
    /\ sse[ch].beats < MaxBeats
    /\ sse' = [sse EXCEPT ![ch].lastWrite = "heartbeat", ![ch].beats = @ + 1]
    /\ UNCHANGED <<mockData, req, res, streamVars, procVars>>

\* A close handler that only logs and leaves the interval running.
ChannelAfterCloseKeepsInterval(channel) == [channel EXCEPT !.peerOpen = FALSE]

\* The close handler's clearInterval(heartbeat).
ChannelAfterClose(channel) ==
    [channel EXCEPT !.heartbeat = FALSE, !.peerOpen = FALSE]

(* req.on('close') of an SSE channel: clearInterval(heartbeat) *)
SseClose(ch) ==
    /\ ch \in 1..Len(sse)
    /\ sse[ch].peerOpen
    /\ sse' = [sse EXCEPT ![ch] = ChannelAfterClose(@)]
    /\ UNCHANGED <<mockData, req, res, streamVars, procVars>>

----------------------------------------------------------------------------
(* streaming.js: streamStockPrices and its running prices *)

\* Object.keys(stocks), in insertion order.
Symbols == <<"AAPL", "GOOGL", "MSFT", "AMZN", "TSLA">>

\* The `stocks` object literal of streamStockPrices, in hundredths.
InitialStocks ==
    [AAPL |-> 18000, GOOGL |-> 280000, MSFT |-> 40000, AMZN |-> 330000,
     TSLA |-> 25000]

\* symbols[Math.floor(Math.random() * symbols.length)] for a draw u of
\* Math.random(), in thousandths.
SymbolOf(u) == Symbols[(u * Len(Symbols)) \div 1000 + 1]

\* (Math.random() - 0.5) * 10, in hundredths.
StockChange(u) == u - 500

Max(a, b) == IF a >= b THEN a ELSE b

\* An update without the floor.
StocksAfterUpdateNoFloor(table, symbol, change) ==
    [table EXCEPT ![symbol] = @ + change]

\* stocks[symbol] = Math.max(1, stocks[symbol] + change)
StocksAfterUpdate(table, symbol, change) ==
    [table EXCEPT ![symbol] = Max(100, @ + change)]

\* The data object of sendStockUpdate: price and change are toFixed(2)
\* strings, the number of hundredths stands for them here.
stockData(table, symbol, change) ==
    [symbol |-> symbol, price |-> table[symbol], change |-> change]

\* Updates followed per stream.
MaxStockTicks == 2

(* start_stream for stock_prices: streamStockPrices creates the stocks object
   of the new stream when it arms the first timer *)
StartStockStream(clientId, config) ==
    /\ handleStartStream(clientId, "stock_prices", config)
    /\ stocks' = [s \in DOMAIN stocks \cup (DOMAIN timers' \ DOMAIN timers) |->
                     IF s \in DOMAIN stocks THEN stocks[s]
                     ELSE [price |-> InitialStocks, ticks |-> 0]]
    /\ UNCHANGED <<server, now, due>>

(* sendStockUpdate: the timer callback of a stock_prices stream.  It draws a
   symbol and a change, updates the stream's stocks object and sends the new
   price; the object goes away with the callback chain *)
StockTimerFire(streamId) ==
    /\ streamId \in DOMAIN timers
    /\ streamId \in DOMAIN stocks
    /\ TimerMayEmit(streamId) => stocks[streamId].ticks < MaxStockTicks
    /\ \E u1 \in RandomInputs, u2 \in RandomInputs :
          LET symbol == SymbolOf(u1)
              change == StockChange(u2)
              table == StocksAfterUpdate(stocks[streamId].price, symbol, change)
          IN /\ StreamCallback(streamId, stockData(table, symbol, change))
             /\ stocks' = IF TimerMayEmit(streamId)
                          THEN [stocks EXCEPT ![streamId] =
                                   [price |-> table, ticks |-> @.ticks + 1]]
                          ELSE Without(stocks, streamId)
    /\ UNCHANGED <<server, now, due>>


----------------------------------------------------------------------------
(* The event loop's clock, and MCPServer.close *)

\* The clock advances in steps of the shortest delay the code uses, the
\* 500 ms of streamSensorData's first setTimeout.
TickMs == 500

MaxTicks == 6

\* How late the event loop may run a callback after its timer expired.
MaxLate == TickMs

(* Time passes.  No timer is left waiting longer than MaxLate past its
   expiry, and close()'s force timer runs when it expires. *)
Tick ==
    /\ now < MaxTicks * TickMs
    /\ \A s \in DOMAIN due : now < due[s].at + MaxLate
    /\ server.state = "closing" => now < server.forceAt
    /\ now' = now + TickMs
    /\ UNCHANGED <<streamVars, httpVars, server, due, stocks>>

(* handleStartStream with the clock: the first setTimeout of the new stream
   expires FirstDelay from now; `fired` counts the events the stream's timer
   chain has delivered *)
StartStreamAt(clientId, streamType, config) ==
    /\ handleStartStream(clientId, streamType, config)
    /\ due' = [s \in DOMAIN due \cup (DOMAIN timers' \ DOMAIN timers) |->
                  IF s \in DOMAIN due THEN due[s]
                  ELSE [at |-> now + FirstDelay(streamType), fired |-> 0]]
    /\ UNCHANGED <<server, now, stocks>>

(* The timer of a stream expires and its callback runs: the next setTimeout,
   if the callback arms one, expires NextDelay from now *)
TimerFireAt(streamId) ==
    /\ streamId \in DOMAIN timers
    /\ streamId \in DOMAIN due
    /\ due[streamId].at <= now
    /\ \E data \in EventDataOf(streamId) : StreamCallback(streamId, data)
    /\ \E u \in RandomInputs :
          due' = IF streamId \in DOMAIN timers'
                 THEN [due EXCEPT ![streamId] =
                          [at |-> now + NextDelay(streams[streamId].type,
                                                  streams[streamId].config, u),
                           fired |-> @.fired + (IF out'[1].sent THEN 1 ELSE 0)]]
                 ELSE Without(due, streamId)
    /\ UNCHANGED <<server, now, stocks>>

(* Time passes while close() waits to resolve *)
ClosingTick == server.state = "closing" /\ Tick

\* Delay of the `Force close after 1 second` timer of MCPServer.close.
ForceCloseMs == 1000

\* What WebSocketServer.close() may do to the connected sockets: ws up to
\* 7.x terminates every client (each then gets its close event), ws 8 leaves
\* them connected.
ClientsAfterWssClose ==
    { clients, [c \in DOMAIN clients |-> [clients[c] EXCEPT !.readyState = "CLOSING"]] }

\* Delay of close()'s first timer.
CloseTimeoutMs == 2000

\* A resolution that does not look at the `resolved` flag.
ResolveUnguarded(srv) ==
    [srv EXCEPT !.state = "closed", !.resolves = @ + 1,
                !.pending = @ \ {"timeout"}]

\* `if (!resolved) { resolved = true; clearTimeout(timeout); resolve(); }`
ResolveOnce(srv) ==
    IF srv.state = "closed" THEN srv
    ELSE [srv EXCEPT !.state = "closed", !.resolves = @ + 1,
                     !.pending = @ \ {"timeout"}]

(* MCPServer.close() is called on a started server: the 2 s timeout is armed,
   streamingService.close() (this.wss.close()) runs inside try/catch and may
   throw, then this.server.close(callback) is called and the force timer is
   armed. *)
Shutdown(threw) ==
    /\ server.state = "listening"
    /\ server' = [state |-> "closing", resolves |-> 0,
                  pending |-> {"callback", "force", "timeout"},
                  forceAt |-> now + ForceCloseMs,
                  timeoutAt |-> now + CloseTimeoutMs]
    /\ IF threw THEN clients' = clients ELSE clients' \in ClientsAfterWssClose
    /\ out' = <<>>
    /\ handled' = [op |-> "shutdown", client |-> 0, stream |-> 0, threw |-> threw]
    /\ UNCHANGED <<nextClientId, streams, nextStreamId, timers, httpVars, now, due, stocks>>

\* http.Server.close calls back once no connection is left: no WebSocket
\* client and no SSE channel whose peer is still connected.
NoConnectionLeft ==
    /\ clients = <<>>
    /\ \A ch \in DOMAIN sse : ~sse[ch].peerOpen

(* MCPServer.close() is called on a server that was never started:
   this.streamingService and this.server are null, so the timeout is armed,
   cleared again and the promise resolved at once *)
CloseUnstarted ==
    /\ server.state = "created"
    /\ server' = ResolveOnce([state |-> "closing", resolves |-> 0,
                              pending |-> {"timeout"}, forceAt |-> 0,
                              timeoutAt |-> now + CloseTimeoutMs])
    /\ out' = <<>>
    /\ handled' = [op |-> "shutdown", client |-> 0, stream |-> 0, threw |-> FALSE]
    /\ UNCHANGED <<clients, nextClientId, streams, nextStreamId, timers,
                   httpVars, now, due, stocks>>

(* The callback of this.server.close runs: close() resolves normally unless
   it has resolved already *)
CloseNormally ==
    /\ "callback" \in server.pending
    /\ NoConnectionLeft
    /\ server' = [ResolveOnce(server) EXCEPT !.pending = @ \ {"callback"}]
    /\ UNCHANGED <<streamVars, httpVars, now, due, stocks>>

(* The force timer of close() expires: close() resolves whatever is left,
   unless it has resolved already *)
ForceResolve ==
    /\ "force" \in server.pending
    /\ now >= server.forceAt
    /\ server' = [ResolveOnce(server) EXCEPT !.pending = @ \ {"force"}]
    /\ UNCHANGED <<streamVars, httpVars, now, due, stocks>>

(* The 2 s timeout of close() expires without having been cleared *)
TimeoutResolve ==
    /\ "timeout" \in server.pending
    /\ now >= server.timeoutAt
    /\ server' = [ResolveOnce(server) EXCEPT !.pending = @ \ {"timeout"}]
    /\ UNCHANGED <<streamVars, httpVars, now, due, stocks>>

(* Time passes while callbacks of close() are still to run, however late
   its timers are run *)
CloseTick ==
    /\ server.pending # {}
    /\ now < MaxTicks * TickMs
    /\ now' = now + TickMs
    /\ UNCHANGED <<streamVars, httpVars, server, due, stocks>>

----------------------------------------------------------------------------
(* The streaming service: every handler, in any order the event loop allows *)

\* The server listens (start() resolved); the clock starts at 0 with no
\* timer pending.
ProcInit ==
    /\ server = [state |-> "listening", resolves |-> 0, pending |-> {},
                 forceAt |-> 0, timeoutAt |-> 0]
    /\ now = 0
    /\ due = <<>>
    /\ stocks = <<>>

Init == StreamInit /\ HttpInit /\ ProcInit

Next ==
    \/ Connect
    \/ \E c \in ClientIds, m \in StartInputs : StartStream(c, m[1], m[2])
    \/ \E c \in ClientIds, s \in StreamIds \cup {0} : StopStream(c, s)
    \/ \E c \in ClientIds : Ping(c)
    \/ \E c \in ClientIds, d \in MalformedInputs : Malformed(c, d)
    \/ \E s \in StreamIds : TimerFire(s)
    \/ \E c \in ClientIds, e \in BOOLEAN : SocketClosing(c, e)
    \/ \E c \in ClientIds : Close(c)

Spec == Init /\ [][Next]_vars

----------------------------------------------------------------------------
(* Shutdown: connections, streams and SSE channels, then MCPServer.close *)

SseGet == Request("GET", {"text/event-stream"}, Undefined, NoBody)

ShutdownNext ==
    \/ Connect
    \/ \E c \in ClientIds : StartStream(c, "user_activity", DefaultConfig)
    \/ \E s \in StreamIds : TimerFire(s)
    \/ \E c \in ClientIds : Close(c)
    \/ HttpRequest(SseGet)
    \/ \E ch \in 1..MaxSse : SseClose(ch)
    \/ \E threw \in BOOLEAN : Shutdown(threw)
    \/ ClosingTick
    \/ CloseNormally
    \/ ForceResolve

ShutdownSpec == Init /\ [][ShutdownNext]_vars

----------------------------------------------------------------------------
(* MCPServer.close and the callbacks that may resolve it *)

\* A server that was constructed, started or not.
CloseInit ==
    /\ StreamInit
    /\ HttpInit
    /\ server \in {[state |-> st, resolves |-> 0, pending |-> {},
                    forceAt |-> 0, timeoutAt |-> 0] :
                       st \in {"created", "listening"}}
    /\ now = 0
    /\ due = <<>>
    /\ stocks = <<>>

CloseNext ==
    \/ Connect
    \/ \E c \in ClientIds : Close(c)
    \/ HttpRequest(SseGet)
    \/ \E ch \in 1..MaxSse : SseClose(ch)
    \/ \E threw \in BOOLEAN : Shutdown(threw)
    \/ CloseUnstarted
    \/ CloseNormally
    \/ ForceResolve
    \/ TimeoutResolve
    \/ CloseTick

CloseSpec == CloseInit /\ [][CloseNext]_vars

\* Time passes and expired timers are run.
CloseLiveSpec ==
    /\ CloseSpec
    /\ WF_vars(CloseTick)
    /\ WF_vars(ForceResolve)
    /\ WF_vars(TimeoutResolve)

----------------------------------------------------------------------------
(* sensor_data streams against the clock *)

(* Time passes once a stream has been started: the clock reads 0 until then *)
StreamTick == nextStreamId > 0 /\ Tick

TimedNext ==
    \/ Connect
    \/ \E c \in ClientIds, m \in SensorInputs : StartStreamAt(c, m[1], m[2])
    \/ \E s \in StreamIds : TimerFireAt(s)
    \/ StreamTick

TimedSpec == Init /\ [][TimedNext]_vars

----------------------------------------------------------------------------
(* The cadence of streams of jittered and unjittered kinds *)

(* A client starts a stream while no stream timer is pending: the streams
   run one after another *)
StartStreamAlone(clientId, streamType, config) ==
    /\ timers = <<>>
    /\ StartStreamAt(clientId, streamType, config)

CadenceNext ==
    \/ Connect
    \/ \E c \in ClientIds, m \in CadenceInputs : StartStreamAlone(c, m[1], m[2])
    \/ \E c \in ClientIds, s \in StreamIds : StopStream(c, s)
    \/ \E s \in StreamIds : TimerFireAt(s)
    \/ StreamTick

CadenceSpec == Init /\ [][CadenceNext]_vars

----------------------------------------------------------------------------
(* stock_prices streams and their running prices *)

\* Price tables a stock_prices stream has after a run of changes to AAPL:
\* none yet, down to 5.50, and held at the floor.
WalkedPrices ==
    { InitialStocks,
      [InitialStocks EXCEPT !.AAPL = 550],
      [InitialStocks EXCEPT !.AAPL = 100] }

\* The first connection has a stock_prices stream running, whose timer is
\* pending and whose prices have walked to one of WalkedPrices.
StockInit ==
    /\ clients = [c \in {1} |-> [subscriptions |-> {}, readyState |-> "OPEN"]]
    /\ nextClientId = 1
    /\ streams = [s \in {1} |->
                     [id |-> 1, type |-> "stock_prices", clientId |-> 1,
                      config |-> DefaultConfig, startedAt |-> 0, active |-> TRUE]]
    /\ nextStreamId = 1
    /\ timers = [s \in {1} |-> 1]
    /\ out = <<>>
    /\ handled = [op |-> "init", client |-> 0, stream |-> 0]
    /\ HttpInit
    /\ server = [state |-> "listening", resolves |-> 0, pending |-> {},
                 forceAt |-> 0, timeoutAt |-> 0]
    /\ now = 0
    /\ due = <<>>
    /\ stocks \in {[s \in {1} |-> [price |-> p, ticks |-> 0]] : p \in WalkedPrices}

StockNext ==
    \/ \E c \in ClientIds : StartStockStream(c, DefaultConfig)
    \/ \E s \in StreamIds : StockTimerFire(s)

StockSpec == StockInit /\ [][StockNext]_vars


----------------------------------------------------------------------------
(* The control protocol of open connections: every message type *)

ControlNext ==
    \/ Connect
    \/ \E c \in ClientIds, t \in TopicInputs : Subscribe(c, t)
    \/ \E c \in ClientIds, t \in TopicInputs : Unsubscribe(c, t)
    \/ \E c \in ClientIds, m \in StartInputs : StartStream(c, m[1], m[2])
    \/ \E c \in ClientIds, s \in StreamIds \cup {0} : StopStream(c, s)
    \/ \E c \in ClientIds : Ping(c)
    \/ \E c \in ClientIds, d \in MalformedInputs : Malformed(c, d)

ControlSpec == Init /\ [][ControlNext]_vars

----------------------------------------------------------------------------
(* The connection registry: subscriptions, broadcasts and disconnects *)

RegistryNext ==
    \/ Connect
    \/ \E c \in ClientIds : Subscribe(c, "chat")
    \/ \E c \in ClientIds : Unsubscribe(c, "chat")
    \/ \E c \in ClientIds : StartStream(c, "user_activity", DefaultConfig)
    \/ \E f \in FilterInputs : Broadcast(f)
    \/ \E c \in ClientIds : SocketClosing(c, FALSE)
    \/ \E c \in ClientIds : Close(c)
    \/ \E c \in ClientIds : CloseAgain(c)

RegistrySpec == Init /\ [][RegistryNext]_vars

----------------------------------------------------------------------------
(* Streams of each of the six kinds: started, emitting and stopped *)

KindNext ==
    \/ Connect
    \/ \E c \in ClientIds, m \in KindInputs : StartStream(c, m[1], m[2])
    \/ \E c \in ClientIds, s \in StreamIds \cup {0} : StopStream(c, s)
    \/ \E s \in StreamIds : TimerFire(s)

KindSpec == Init /\ [][KindNext]_vars

----------------------------------------------------------------------------
(* The /mcp endpoint: every request, heartbeat and SSE disconnect *)

HttpNext == \E r \in RequestInputs : HttpRequest(r)

HttpSpec == Init /\ [][HttpNext]_vars

----------------------------------------------------------------------------
(* The SSE channels of /mcp: GET requests, heartbeats and disconnects *)

SseNext ==
    \/ \E r \in SseRequestInputs : HttpRequest(r)
    \/ \E ch \in 1..MaxSse : SseHeartbeat(ch)
    \/ \E ch \in 1..MaxSse : SseClose(ch)

SseSpec == Init /\ [][SseNext]_vars

----------------------------------------------------------------------------
(* The whole server: /mcp requests interleaved with the streaming service *)

ServerNext ==
    \/ \E r \in ServerRequestInputs : HttpRequest(r)
    \/ Connect
    \/ \E c \in ClientIds, m \in StartInputs : StartStream(c, m[1], m[2])
    \/ \E s \in StreamIds : TimerFire(s)
    \/ \E c \in ClientIds : Close(c)

ServerSpec == Init /\ [][ServerNext]_vars

----------------------------------------------------------------------------
(* Properties of the streaming service (checked under Spec) *)

\* An entry of `out` that is a stream event for stream s.
EventFor(entry, s) == IsEvent(entry.msg) /\ entry.msg.streamId = s

\* The stream with id s was created and has since been stopped: it left the
\* map (or was marked inactive), which only handleStopStream does, together
\* with the stream_stopped acknowledgment.
StopAcked(s) ==
    /\ s \in 1..nextStreamId
    /\ (s \notin DOMAIN streams \/ ~streams[s].active)

\* C1: after the close event of a connection has been handled, a timer of a
\* stream that connection started makes no further emission attempt and is
\* not rescheduled: whenever the handler that ran last is a stream timer whose
\* stream belongs to a connection no longer registered, it called
\* sendToClient for nobody and left no pending timer for that stream.
C1_NoDanglingTimers ==
    (handled.op = "timer" /\ handled.client # 0
        /\ handled.client \notin DOMAIN clients)
    => (out = <<>> /\ handled.stream \notin DOMAIN timers)

\* C2: every entry of the streams map has a clientId that is a key of the
\* clients map.
C2_StreamOwnerRegistered ==
    \A s \in DOMAIN streams : streams[s].clientId \in DOMAIN clients

\* C3: once stop_stream for a stream has been handled and acknowledged, no
\* step sends (or even attempts to send) an event carrying that streamId.
C3_NoEventAfterStop ==
    [][\A s \in StreamIds :
          StopAcked(s) => \A i \in DOMAIN out' : ~EventFor(out'[i], s)]_vars

\* C3 witness: the timer of a stopped stream fired after the stop and
\* returned without emitting.
C3_TimerFiredAfterStop ==
    /\ handled.op = "timer"
    /\ StopAcked(handled.stream)
    /\ handled.stream \notin DOMAIN timers
    /\ out = <<>>

\* C19: a start_stream whose streamType is none of the six kinds is rejected
\* when it is handled: the requester is sent exactly one error message, the
\* streams map gets no entry, no timer is scheduled, no stream id is used up
\* and the connection stays registered with its socket open.
C19_UnknownKindRejected ==
    [][(handled'.op = "start_stream" /\ handled'.streamType \notin validTypes)
       => /\ Len(out') = 1
          /\ out'[1].to = handled'.client
          /\ out'[1].msg.type = "error"
          /\ out'[1].sent
          /\ streams' = streams
          /\ timers' = timers
          /\ nextStreamId' = nextStreamId
          /\ clients' = clients
          /\ handled'.client \in DOMAIN clients'
          /\ clients'[handled'.client].readyState = "OPEN"]_vars

\* C19 witness: a connection that already runs a stream sent start_stream
\* with the kind "bogus" and got the error, its stream still running.
C19_UnknownKindSeen ==
    /\ handled.op = "start_stream"
    /\ handled.streamType = "bogus"
    /\ handled.stream = 0
    /\ out[1].msg = [type |-> "error", message |-> "Invalid stream type: bogus"]
    /\ \E s \in DOMAIN streams :
          streams[s].clientId = handled.client /\ s \in DOMAIN timers

\* C20: a stop_stream that names a stream absent from the map, or one owned
\* by another connection, sends the requester exactly one error message and
\* changes neither the streams map nor the pending timers: the named stream,
\* if there is one, is still active with its owner and its timer.
C20_ForeignStopRejected ==
    [][(handled'.op = "stop_stream"
          /\ (handled'.stream \notin DOMAIN streams
              \/ streams[handled'.stream].clientId # handled'.client))
       => /\ Len(out') = 1
          /\ out'[1].to = handled'.client
          /\ out'[1].msg.type = "error"
          /\ streams' = streams
          /\ timers' = timers
          /\ handled'.stream \in DOMAIN streams
                => streams'[handled'.stream].active]_vars

\* C20 witness: a connection asked to stop a running stream of another,
\* still registered, connection and got the error; the stream is still in
\* the map with its timer pending.
C20_ForeignStopSeen ==
    /\ handled.op = "stop_stream"
    /\ out[1].msg.type = "error"
    /\ handled.stream \in DOMAIN streams
    /\ streams[handled.stream].clientId # handled.client
    /\ streams[handled.stream].clientId \in DOMAIN clients
    /\ streams[handled.stream].active
    /\ handled.stream \in DOMAIN timers

\* The reply types the protocol allows for each kind of control message.
ExpectedReplies(op) ==
    CASE op = "subscribe"    -> {"subscribed", "error"}
      [] op = "unsubscribe"  -> {"unsubscribed"}
      [] op = "start_stream" -> {"stream_started", "error"}
      [] op = "stop_stream"  -> {"stream_stopped", "error"}
      [] op = "ping"         -> {"pong"}
      [] op = "malformed"    -> {"error"}

ControlOps ==
    {"subscribe", "unsubscribe", "start_stream", "stop_stream", "ping", "malformed"}

\* C21: the handling step of every control message received on an open
\* connection puts at least one reply on that connection's socket, the first
\* of an expected type (subscribed or error, unsubscribed, stream_started or
\* error, stream_stopped or error, pong, error for anything else), and sends
\* nothing to any other connection.
C21_EveryMessageAnswered ==
    [][handled'.op \in ControlOps
       => /\ Len(out') >= 1
          /\ out'[1].msg.type \in ExpectedReplies(handled'.op)
          /\ \A i \in DOMAIN out' :
                out'[i].to = handled'.client /\ out'[i].sent]_vars

\* C21 witness: a subscribe to an unknown topic was answered with an error
\* on the requester's socket.
C21_SubscribeErrorSeen ==
    /\ handled.op = "subscribe"
    /\ Len(out) = 1
    /\ out[1].msg = [type |-> "error", message |-> "Invalid stream: bogus"]
    /\ out[1].to = handled.client
    /\ out[1].sent

\* The error the catch of ws.on('message') sends.
CaughtError == [type |-> "error", message |-> "Invalid JSON message"]

\* C22: whenever the handling of a message ends in the catch of the message
\* handler (the data is not JSON, or handling it threw), the originating
\* connection is sent the error and stays registered, and the clients map
\* (subscriptions included), the streams map and the timers are as before.
C22_MalformedChangesNothing ==
    [][(\E i \in DOMAIN out' : out'[i].msg = CaughtError)
       => /\ \E i \in DOMAIN out' :
                /\ out'[i].msg = CaughtError
                /\ out'[i].to = handled'.client
                /\ out'[i].sent
          /\ handled'.client \in DOMAIN clients'
          /\ clients' = clients
          /\ streams' = streams
          /\ timers' = timers]_vars

\* C23: accepting a connection stores it under an identifier no connection
\* was ever registered under, and sends on it exactly one message, the
\* welcome: type connection, that clientId, and the list of exactly the six
\* stream kinds.
C23_FreshIdAndWelcome ==
    [][handled'.op = "connection"
       => LET id == handled'.client
          IN /\ id \notin 1..nextClientId
             /\ id \notin DOMAIN clients
             /\ id \in DOMAIN clients'
             /\ \A c \in DOMAIN clients : clients'[c] = clients[c]
             /\ Len(out') = 1
             /\ out'[1].to = id
             /\ out'[1].sent
             /\ out'[1].msg.type = "connection"
             /\ out'[1].msg.clientId = id
             /\ Len(out'[1].msg.availableStreams) = Cardinality(validTypes)
             /\ {out'[1].msg.availableStreams[i] :
                     i \in DOMAIN out'[1].msg.availableStreams} = validTypes]_vars

\* C23 witness: a connection was accepted and welcomed while an earlier one
\* was still registered and running a stream.
C23_SecondWelcomeSeen ==
    /\ handled.op = "connection"
    /\ handled.client # 1
    /\ out[1].msg.type = "connection"
    /\ 1 \in DOMAIN clients
    /\ streams # <<>>

\* The connections a broadcast reached: those a message went out to.
Reached == {out[i].to : i \in {j \in DOMAIN out : out[j].sent}}

OpenClients == {c \in DOMAIN clients : clients[c].readyState = "OPEN"}

\* C24 as claimed: a broadcast with a filter reaches exactly the registered
\* open connections whose subscriptions contain the filter, a broadcast with
\* no filter reaches every registered open connection, each once.
C24_BroadcastAnyFilter ==
    handled.op = "broadcast"
    => /\ Reached = IF handled.streamFilter = NoFilter THEN OpenClients
                    ELSE {c \in OpenClients :
                            handled.streamFilter \in clients[c].subscriptions}
       /\ \A i, j \in DOMAIN out : out[i].to = out[j].to => i = j

\* C24 amended: a broadcast with a non-empty filter reaches exactly the
\* registered open connections whose subscriptions contain the filter; a
\* broadcast with no filter, or with the empty string as filter, reaches
\* every registered open connection; each connection is sent to at most once.
C24_BroadcastNonEmptyFilter ==
    handled.op = "broadcast"
    => /\ Reached = IF handled.streamFilter \in {NoFilter, ""} THEN OpenClients
                    ELSE {c \in OpenClients :
                            handled.streamFilter \in clients[c].subscriptions}
       /\ \A i, j \in DOMAIN out : out[i].to = out[j].to => i = j

\* C24 witness: a broadcast filtered on "chat" reached the one subscriber
\* and not the other open connection.
C24_FilteredBroadcastSeen ==
    /\ handled.op = "broadcast"
    /\ handled.streamFilter = "chat"
    /\ Cardinality(Reached) = 1
    /\ Cardinality(OpenClients) = 2

\* C25: running the disconnect cleanup again for a connection whose close
\* was already handled changes nothing: clients, streams and timers are as
\* the first run left them, and nothing is sent.
C25_CloseTwiceIsCloseOnce ==
    [][(handled'.op = "close" /\ handled'.client \notin DOMAIN clients)
       => /\ clients' = clients
          /\ streams' = streams
          /\ timers' = timers
          /\ out' = <<>>]_vars

\* C25 witness: the cleanup ran a second time for a closed connection while
\* another connection was registered.
C25_SecondCleanupSeen ==
    /\ handled.op = "close"
    /\ "repeated" \in DOMAIN handled
    /\ handled.client \notin DOMAIN clients
    /\ clients # <<>>

\* C26: once MCPServer.close has resolved, no connection is left open, no
\* stream timer is pending and no SSE heartbeat interval is armed; and close
\* resolves no later than its 1 s force timer.
C26_ShutdownCleansUp ==
    /\ server.state = "closed"
       => /\ \A c \in DOMAIN clients : clients[c].readyState # "OPEN"
          /\ \A ch \in DOMAIN sse : ~sse[ch].peerOpen /\ ~sse[ch].heartbeat
          /\ timers = <<>>
    /\ server.state = "closing" => now <= server.forceAt

\* A sensor_data stream started with config.interval = 1000 whose
\* connection is registered and open.
SensorStream1000(s) ==
    /\ s \in DOMAIN streams
    /\ streams[s].type = "sensor_data"
    /\ streams[s].config.interval = 1000
    /\ streams[s].clientId \in DOMAIN clients
    /\ clients[streams[s].clientId].readyState = "OPEN"

\* C27: once more than 2500 ms have passed since a sensor_data stream with
\* config.interval = 1000 was started on a connection that is still open,
\* at least 2 of its events have been delivered; and every sensor_data
\* event has a temperature in [10,50] and a humidity in [20,80] (readings
\* are in tenths).  Timers run at most MaxLate after they expire.
C27_TwoSensorEventsIn2500 ==
    [][/\ \A s \in DOMAIN streams' :
             (SensorStream1000(s)' /\ now' > streams'[s].startedAt + 2500)
             => (s \in DOMAIN due' /\ due'[s].fired >= 2)
       /\ \A i \in DOMAIN out' :
             out'[i].msg.type = "sensor_data"
             => /\ out'[i].msg.data.temperature \in 100..500
                /\ out'[i].msg.data.humidity \in 200..800]_vars

\* C27 witness: the second event of such a stream has just been delivered,
\* no more than 2500 ms after the stream was started.
C27_SecondEventInTime ==
    /\ handled.op = "timer"
    /\ SensorStream1000(handled.stream)
    /\ handled.stream \in DOMAIN due
    /\ due[handled.stream].fired = 2
    /\ now <= streams[handled.stream].startedAt + 2500
    /\ Len(out) = 1 /\ out[1].sent
    /\ out[1].msg.type = "sensor_data"

\* C28: every stream event has a type equal to the kind of its stream (the
\* streamType of the start_stream that created it) and carries the stream's
\* id, and every stream_started and stream_stopped acknowledgment carries
\* both streamId and streamType.
C28_EventTypeIsKind ==
    \A i \in DOMAIN out :
        /\ IsEvent(out[i].msg)
           => /\ "streamId" \in DOMAIN out[i].msg
              /\ out[i].msg.streamId \in DOMAIN streams
              /\ out[i].msg.type = streams[out[i].msg.streamId].type
        /\ out[i].msg.type \in {"stream_started", "stream_stopped"}
           => {"streamId", "streamType"} \subseteq DOMAIN out[i].msg

\* C29: when a socket error has occurred on a connection and its close event
\* is then handled, the connection is out of the clients map and none of its
\* streams is left in the streams map or has a timer pending.
C29_ErrorTearsDown ==
    [][(handled.op = "error" /\ handled'.op = "close"
          /\ handled'.client = handled.client)
       => /\ handled.client \notin DOMAIN clients'
          /\ \A s \in DOMAIN streams' : streams'[s].clientId # handled.client
          /\ \A s \in DOMAIN timers' :
                s \in DOMAIN streams => streams[s].clientId # handled.client]_vars

\* C30: every stream event a handler sends (or tries to send) goes to the
\* connection that started the stream and to no other: each event in `out`
\* carries the id of a stream in the map and is addressed to that stream's
\* owner.
C30_EventsToOwnerOnly ==
    \A i \in DOMAIN out :
        IsEvent(out[i].msg)
        => /\ out[i].msg.streamId \in DOMAIN streams
           /\ out[i].to = streams[out[i].msg.streamId].clientId

\* C30 witness: two registered connections each run a stream, and the owner
\* of the second stream, which is not the connection registered first, has
\* just been sent an event of that stream.
C30_SecondOwnerServed ==
    /\ handled.op = "timer"
    /\ Len(out) = 1 /\ IsEvent(out[1].msg) /\ out[1].sent
    /\ out[1].to # 1
    /\ \E s, t \in DOMAIN streams :
          /\ s # t
          /\ streams[s].clientId # streams[t].clientId
          /\ {s, t} \subseteq DOMAIN timers
          /\ {streams[s].clientId, streams[t].clientId} \subseteq DOMAIN clients

\* C31: no stream ever has more than one pending timer; and when a timer
\* callback has emitted an event, the stream has exactly one pending timer
\* if it is still in the streams map and none otherwise.
C31_OnePendingTimer ==
    [][/\ \A s \in DOMAIN timers' : timers'[s] <= 1
       /\ \A s \in StreamIds :
             (TimerFire(s) /\ out' # <<>>)
             => IF s \in DOMAIN streams'
                THEN s \in DOMAIN timers' /\ timers'[s] = 1
                ELSE s \notin DOMAIN timers']_vars

\* C31 witness: an analytics stream has emitted an event beside another
\* stream whose timer is pending, and has its one next timer pending.
C31_RearmedBesideAnother ==
    /\ handled.op = "timer"
    /\ Len(out) = 1 /\ IsEvent(out[1].msg)
    /\ handled.stream \in DOMAIN streams
    /\ streams[handled.stream].type = "analytics"
    /\ handled.stream \in DOMAIN timers
    /\ timers[handled.stream] = 1
    /\ \E t \in DOMAIN timers : t # handled.stream

\* C32: whenever a timer callback re-arms its stream, the delay it asks for
\* is between the cadence and 1.5 times the cadence for the jittered kinds
\* (user_activity, chat_simulation, log_events), and exactly the cadence for
\* the other kinds; the cadence is config.interval or the kind's default.
C32_JitterAtMostHalf ==
    [][\A s \in StreamIds :
          (TimerFireAt(s) /\ s \in DOMAIN due')
          => LET cadence == StreamInterval(streams[s].type, streams[s].config)
                 delay == due'[s].at - now
             IN IF streams[s].type \in JitteredKinds
                THEN cadence <= delay /\ 2 * delay <= 3 * cadence
                ELSE delay = cadence]_vars

\* The symbols whose price differs between two price tables.
ChangedSymbols(before, after) ==
    {sym \in DOMAIN before : after[sym] # before[sym]}

C34_StartedStreamScheduled ==
    \A s \in DOMAIN streams : s \in DOMAIN timers


\* The subscription set of a connection, the empty set if it is not registered.
SubscriptionsOf(cls, c) == IF c \in DOMAIN cls THEN cls[c].subscriptions ELSE {}

\* C36: every subscription set holds labels of the valid topic list only;
\* subscribe with another label answers an error and leaves the registry as
\* it was; subscribe with a valid label leaves the set with that label added
\* (the same set if it was there already) and acknowledges; unsubscribe
\* leaves the set without the label (the same set if it was absent) and
\* always acknowledges; no other connection's set changes.
C36_SubscriptionsAreValidTopics ==
    [][/\ \A c \in DOMAIN clients' : clients'[c].subscriptions \subseteq validStreams
       /\ \A c \in ClientIds, t \in TopicInputs :
             /\ Subscribe(c, t)
                => /\ SubscriptionsOf(clients', c)
                         = IF t \in validStreams
                           THEN SubscriptionsOf(clients, c) \cup {t}
                           ELSE SubscriptionsOf(clients, c)
                   /\ Len(out') = 1 /\ out'[1].to = c
                   /\ out'[1].msg.type
                         = IF t \in validStreams THEN "subscribed" ELSE "error"
                   /\ \A d \in DOMAIN clients \ {c} :
                         SubscriptionsOf(clients', d) = SubscriptionsOf(clients, d)
             /\ Unsubscribe(c, t)
                => /\ SubscriptionsOf(clients', c) = SubscriptionsOf(clients, c) \ {t}
                   /\ Len(out') = 1 /\ out'[1].to = c
                   /\ out'[1].msg.type = "unsubscribed"
                   /\ out'[1].msg.stream = t
                   /\ \A d \in DOMAIN clients \ {c} :
                         SubscriptionsOf(clients', d) = SubscriptionsOf(clients, d)]_vars

\* C36 witness: a subscribe with an invalid label was answered with an error
\* on a connection that holds a valid subscription, beside a connection
\* that holds none.
C36_InvalidLabelRejected ==
    /\ handled.op = "subscribe"
    /\ Len(out) = 1 /\ out[1].msg.type = "error"
    /\ handled.client \in DOMAIN clients
    /\ clients[handled.client].subscriptions = {"chat"}
    /\ \E d \in DOMAIN clients : clients[d].subscriptions = {}


\* C37: a stop_stream that succeeds for stream s removes s from the streams
\* map and nothing else: every other stream is in the map as before and the
\* pending timers are as before; and whenever the timer of a stream that is
\* in the map fires, it emits an event of that stream.
C37_StopAffectsOnlyThatStream ==
    [][/\ \A c \in ClientIds, s \in StreamIds :
             (StopStream(c, s) /\ s \in DOMAIN streams
                 /\ streams[s].clientId = c)
             => /\ s \notin DOMAIN streams'
                /\ \A t \in DOMAIN streams \ {s} :
                      t \in DOMAIN streams' /\ streams'[t] = streams[t]
                /\ timers' = timers
       /\ \A t \in StreamIds :
             (TimerFire(t) /\ t \in DOMAIN streams)
             => /\ Len(out') = 1
                /\ IsEvent(out'[1].msg)
                /\ out'[1].msg.streamId = t
                /\ t \in DOMAIN timers']_vars

\* C37 witness: a stream was stopped and acknowledged while another stream
\* of the same connection is still in the map with its timer pending.
C37_SiblingStreamSurvives ==
    /\ handled.op = "stop_stream"
    /\ Len(out) = 1 /\ out[1].msg.type = "stream_stopped"
    /\ handled.stream \notin DOMAIN streams
    /\ \E t \in DOMAIN streams :
          /\ t # handled.stream
          /\ streams[t].clientId = handled.client
          /\ t \in DOMAIN timers /\ timers[t] = 1


----------------------------------------------------------------------------
(* Properties of the /mcp endpoint (checked under HttpSpec) *)

\* The JSON-RPC envelope of the response: the one SSE frame, or the body.
ResEnvelope == IF res.frames # <<>> THEN res.frames[1] ELSE res.body[1]

AcceptsJsonOrSse(r) ==
    "application/json" \in r.accept \/ "text/event-stream" \in r.accept

\* The request handled last is a POST whose body parsed to a non-null value
\* and that passed the Accept test.
IsRpcPost(r) ==
    /\ r.method = "POST"
    /\ AcceptsJsonOrSse(r)
    /\ r.body.parse = "ok"
    /\ r.body.value.j # "null"

IsToolsCall(r) == IsRpcPost(r) /\ Arg(r.body.value, "method") = "tools/call"

CalledTool(r) == Arg(CallParams(r.body.value), "name")

HasError(env) == "error" \in DOMAIN env

HasResult(env) == "result" \in DOMAIN env

\* C4: an OPTIONS request to /mcp is answered 200 with an empty body and an
\* Access-Control-Allow-Methods header that contains DELETE.
C4_OptionsAllowsDelete ==
    req.method = "OPTIONS"
    => (res.status = 200 /\ res.body = <<>> /\ "DELETE" \in res.allowMethods)

\* C5 as claimed: every POST with an unparseable body is answered 400 with
\* exactly the parse-error envelope, whatever the Accept header.
C5_ParseErrorAnyAccept ==
    (req.method = "POST" /\ req.body.parse = "error")
    => (res.status = 400
        /\ res.body = << [jsonrpc |-> "2.0", id |-> "null",
                          error |-> [code |-> -32700, message |-> "Parse error"]] >>)

\* C5 amended: a POST with an unparseable body is answered 400 with exactly
\* the parse-error envelope when its Accept header contains application/json
\* or text/event-stream, and 406 otherwise.
C5_ParseErrorWhenAcceptable ==
    (req.method = "POST" /\ req.body.parse = "error")
    => IF AcceptsJsonOrSse(req)
       THEN /\ res.status = 400
            /\ res.body = << [jsonrpc |-> "2.0", id |-> "null",
                              error |-> [code |-> -32700, message |-> "Parse error"]] >>
            /\ res.frames = <<>>
       ELSE res.status = 406

\* C5 witness: an unparseable body sent with Accept: text/event-stream got
\* the 400 parse-error document.
C5_ParseErrorSeen ==
    /\ req.method = "POST" /\ req.body.parse = "error"
    /\ req.accept = {"text/event-stream"}
    /\ res.status = 400

\* C6: for a POST whose body parses to a request, the response envelope
\* carries the request's id: the same id when the request has one (null
\* included), and no id when the request has none.
C6_IdEchoed ==
    IsRpcPost(req)
    => IF Has(req.body.value, "id")
       THEN "id" \in DOMAIN ResEnvelope /\ ResEnvelope.id = req.body.value.obj.id
       ELSE "id" \notin DOMAIN ResEnvelope

\* C6 witness: a failing tools/call without an id was answered by an error
\* envelope without an id.
C6_AbsentIdEchoed ==
    /\ IsToolsCall(req)
    /\ ~Has(req.body.value, "id")
    /\ HasError(ResEnvelope)
    /\ "id" \notin DOMAIN ResEnvelope

\* C7: every POST with an acceptable Accept header gets one ended response
\* holding exactly one document, a JSON-RPC envelope with exactly one of
\* result and error.
C7_OneWellFormedEnvelope ==
    (req.method = "POST" /\ AcceptsJsonOrSse(req))
    => /\ res.ended
       /\ Len(res.body) + Len(res.frames) = 1
       /\ ResEnvelope.jsonrpc = "2.0"
       /\ HasResult(ResEnvelope) # HasError(ResEnvelope)

\* C7 witness: a body that parses to null was answered by one error envelope.
C7_NullBodyAnswered ==
    /\ req.method = "POST" /\ AcceptsJsonOrSse(req)
    /\ req.body.parse = "ok" /\ req.body.value.j = "null"
    /\ HasError(ResEnvelope)

\* C8: a tools/call whose execution fails is answered with status 200 and an
\* error envelope with code -32000 and exactly the failure's message; one
\* whose execution succeeds is answered with a content list of exactly one
\* block of type text.  (The outcome is that of executeTool on the store as
\* it was before the request.)
C8_ToolOutcomeEnvelope ==
    [][IsToolsCall(req')
       => LET outcome == executeTool(CalledTool(req'), mockData,
                                     CallArgs(req'.body.value))
              env == ResEnvelope'
          IN /\ res'.status = 200
             /\ ~outcome.ok =>
                   /\ HasError(env)
                   /\ env.error.code = -32000
                   /\ env.error.message = outcome.message
             /\ outcome.ok =>
                   /\ HasResult(env)
                   /\ Len(env.result.content) = 1
                   /\ env.result.content[1].type = "text"]_vars

\* C8 witness: update_user for a missing user was answered 200 with error
\* -32000 and the handler's message.
C8_FailureSeen ==
    /\ IsToolsCall(req)
    /\ CalledTool(req) = "update_user"
    /\ res.status = 200
    /\ HasError(ResEnvelope)
    /\ ResEnvelope.error.code = -32000
    /\ ResEnvelope.error.message = "User with ID 99 not found"

\* C9: a tools/call naming a tool outside the catalog is answered with error
\* -32000 whose message names that tool, and leaves the data store as it was.
C9_UnknownToolNoMutation ==
    [][(IsToolsCall(req') /\ CalledTool(req') \notin ToolNames)
       => /\ HasError(ResEnvelope')
          /\ ResEnvelope'.error.code = -32000
          /\ ResEnvelope'.error.message = "Unknown tool: " \o CalledTool(req')
          /\ mockData' = mockData]_vars

\* C9 witness: no_such_tool was called on a store that already differs from
\* the initial one, and was answered with the error.
C9_UnknownToolSeen ==
    /\ IsToolsCall(req)
    /\ CalledTool(req) = "no_such_tool"
    /\ HasError(ResEnvelope)
    /\ mockData # getMockData

\* The required arguments the catalog declares for a tool.
RequiredOf(toolName) ==
    getTools[CHOOSE i \in 1..Len(getTools) : getTools[i].name = toolName].required

\* The call names a catalog tool and omits an argument its schema requires.
MissingRequired(r) ==
    /\ IsToolsCall(r)
    /\ CalledTool(r) \in ToolNames
    /\ IsObj(CallArgs(r.body.value))
    /\ \E k \in RequiredOf(CalledTool(r)) : ~Has(CallArgs(r.body.value), k)

\* C10: a tools/call that omits a declared required argument is a tool
\* execution failure: it is answered with error -32000 and leaves the data
\* store as it was.
C10_MissingRequiredRejected ==
    [][MissingRequired(req')
       => /\ HasError(ResEnvelope')
          /\ ResEnvelope'.error.code = -32000
          /\ mockData' = mockData]_vars

\* The method a POSTed request names (Undefined when it names none).
MethodOf(r) == Arg(r.body.value, "method")

IsToolsList(r) == IsRpcPost(r) /\ MethodOf(r) = "tools/list"

IsInitialize(r) == IsRpcPost(r) /\ MethodOf(r) = "initialize"

\* C11: every tools/list response carries the same descriptor list, that of
\* the whole catalog, whatever tools/call, initialize, other requests and
\* streaming operations were executed before it; so any two tools/list
\* responses are identical.
C11_ToolsListStable ==
    IsToolsList(req)
    => /\ HasResult(ResEnvelope)
       /\ ResEnvelope.result = [tools |-> getTools]

\* C11 witness: tools/list was answered after a tools/call had changed the
\* data store and while a stream of a registered connection was running.
C11_ListedAfterChanges ==
    /\ IsToolsList(req)
    /\ HasResult(ResEnvelope)
    /\ mockData # getMockData
    /\ \E s \in DOMAIN streams :
          s \in DOMAIN timers /\ streams[s].clientId \in DOMAIN clients

\* The answer C12 describes for request r, response rs and envelope env:
\* one SSE data frame when Accept lists text/event-stream, else one JSON
\* document when it lists application/json, else 406.
NegotiatedAnswer(r, rs, env) ==
    IF "text/event-stream" \in r.accept
    THEN /\ rs.status = 200
         /\ rs.contentType = "text/event-stream"
         /\ rs.frames = << env >>
         /\ rs.body = <<>>
         /\ rs.ended
    ELSE IF "application/json" \in r.accept
    THEN /\ rs.status = 200
         /\ rs.contentType = "application/json"
         /\ rs.body = << env >>
         /\ rs.frames = <<>>
         /\ rs.ended
    ELSE rs.status = 406

\* The envelope the method switch builds for request r on data store d.
RoutedEnvelope(r, d) ==
    DispatchRpc(r.body.value, protocolVersionOf(r), d).response

\* C12 as claimed: every POST whose body is parseable JSON is answered as
\* negotiated: 200 with one SSE frame, 200 with one JSON document, or 406.
C12_NegotiatedAnyParseable ==
    [][(req'.method = "POST" /\ req'.body.parse = "ok")
       => NegotiatedAnswer(req', res',
             IF req'.body.value.j = "null" THEN ParseErrorResponse
             ELSE RoutedEnvelope(req', mockData))]_vars

\* C12 amended: every POST whose body parses to a JSON value other than
\* null is answered as negotiated, the envelope being the one the method
\* switch built; a body that parses to null is answered like an unparseable
\* one (400 with the parse-error envelope) when the Accept header is
\* acceptable.
C12_NegotiatedNonNull ==
    [][/\ (req'.method = "POST" /\ req'.body.parse = "ok"
             /\ req'.body.value.j # "null")
          => NegotiatedAnswer(req', res', RoutedEnvelope(req', mockData))
       /\ (req'.method = "POST" /\ req'.body.parse = "ok"
             /\ req'.body.value.j = "null" /\ AcceptsJsonOrSse(req'))
          => /\ res'.status = 400
             /\ res'.body = << ParseErrorResponse >>]_vars

\* C12 witness: a tools/call sent with an Accept header listing both media
\* types was answered with an ended event stream of one frame.
C12_SseFrameSeen ==
    /\ IsToolsCall(req)
    /\ req.accept = {"application/json", "text/event-stream"}
    /\ res.status = 200
    /\ res.contentType = "text/event-stream"
    /\ Len(res.frames) = 1
    /\ HasResult(res.frames[1])
    /\ res.ended

\* C15: a DELETE is answered 200 and changes nothing: the data store, the
\* clients map, the streams map, the pending timers and the SSE channels are
\* the same before and after it.
C15_DeleteChangesNothing ==
    [][\A r \in ServerRequestInputs :
          (r.method = "DELETE" /\ HttpRequest(r))
          => /\ res'.status = 200
             /\ res'.ended
             /\ mockData' = mockData
             /\ clients' = clients
             /\ streams' = streams
             /\ timers' = timers
             /\ sse' = sse]_vars

\* C15 witness: a DELETE was answered 200 on a server whose data store had
\* been changed and that had a registered connection with a running stream.
C15_DeleteSeen ==
    /\ req.method = "DELETE"
    /\ res.status = 200
    /\ mockData # getMockData
    /\ \E s \in DOMAIN streams :
          s \in DOMAIN timers /\ streams[s].clientId \in DOMAIN clients

\* C16: a request with a verb other than OPTIONS, GET, POST and DELETE is
\* answered 405 and changes no state.
C16_OtherVerb405 ==
    [][\A r \in ServerRequestInputs :
          (r.method \notin {"OPTIONS", "GET", "POST", "DELETE"} /\ HttpRequest(r))
          => /\ res'.status = 405
             /\ res'.ended
             /\ mockData' = mockData
             /\ clients' = clients
             /\ streams' = streams
             /\ timers' = timers
             /\ sse' = sse]_vars

\* C16 witness: a PATCH was answered 405 on a server whose data store had
\* been changed and that had a running stream.
C16_PatchSeen ==
    /\ req.method = "PATCH"
    /\ res.status = 405
    /\ mockData # getMockData
    /\ streams # <<>>

\* C17: a request whose method is none of initialize, tools/list and
\* tools/call is answered with an error envelope of code -32601 whose
\* message ends with the requested method name, and the data store (all that
\* a tool execution could touch) is left as it was.
C17_UnknownMethod ==
    [][(IsRpcPost(req')
          /\ MethodOf(req') \notin {"initialize", "tools/list", "tools/call"})
       => /\ res'.status = 200
          /\ HasError(ResEnvelope')
          /\ ~HasResult(ResEnvelope')
          /\ ResEnvelope'.error.code = -32601
          /\ ResEnvelope'.error.message = "Method not found: " \o MethodOf(req')
          /\ mockData' = mockData]_vars

\* C17 witness: the method "bogus" was answered with the error on a data
\* store that earlier tools/call requests had changed.
C17_UnknownMethodSeen ==
    /\ IsRpcPost(req)
    /\ MethodOf(req) = "bogus"
    /\ ResEnvelope.error.message = "Method not found: bogus"
    /\ mockData # getMockData

\* The result every initialize gets, but for its protocolVersion.
InitializeSucceeds(env) ==
    /\ HasResult(env)
    /\ ~HasError(env)
    /\ env.result.capabilities.tools.listChanged = TRUE

\* C18 as claimed: initialize always succeeds; protocolVersion is the
\* MCP-Protocol-Version header's value whenever the request has that header
\* and 2024-11-05 when it has none.
C18_VersionEchoedWhenPresent ==
    IsInitialize(req)
    => /\ InitializeSucceeds(ResEnvelope)
       /\ ResEnvelope.result.protocolVersion =
             IF req.version # Undefined THEN req.version ELSE "2024-11-05"

\* C18 amended: initialize always succeeds, whatever its params;
\* protocolVersion is the MCP-Protocol-Version header's value when the
\* request has that header with a non-empty value, and 2024-11-05 when the
\* header is absent or empty.
C18_VersionEchoedWhenNonEmpty ==
    IsInitialize(req)
    => /\ res.status = 200
       /\ InitializeSucceeds(ResEnvelope)
       /\ ResEnvelope.result.protocolVersion =
             IF req.version # Undefined /\ req.version # ""
             THEN req.version ELSE "2024-11-05"

\* C18 witness: an initialize sent with MCP-Protocol-Version: 2025-03-26 got
\* that version back.
C18_HeaderVersionSeen ==
    /\ IsInitialize(req)
    /\ req.version = "2025-03-26"
    /\ ResEnvelope.result.protocolVersion = "2025-03-26"

----------------------------------------------------------------------------
(* Properties of the SSE channels of /mcp (checked under SseSpec) *)

\* C13: a GET whose Accept header lists text/event-stream is answered 200
\* with Content-Type text/event-stream and the response left open; any other
\* GET is answered 406 with an error body and the response ended; and a
\* channel with its heartbeat timer is created only by a GET of the first
\* kind.
C13_GetOpensOrRejects ==
    [][/\ req'.method = "GET"
          => IF "text/event-stream" \in req'.accept
             THEN /\ res'.status = 200
                  /\ res'.contentType = "text/event-stream"
                  /\ ~res'.ended
             ELSE /\ res'.status = 406
                  /\ Len(res'.body) = 1
                  /\ "error" \in DOMAIN res'.body[1]
                  /\ res'.ended
       /\ Len(sse') # Len(sse)
          => /\ req'.method = "GET"
             /\ "text/event-stream" \in req'.accept
             /\ sse' = Append(sse, NewChannel)]_vars

\* C13 witness: after one GET had opened a channel, a GET accepting only
\* text/html was answered 406 and the server still has that one channel.
C13_RejectedGetSeen ==
    /\ req.method = "GET"
    /\ req.accept = {"text/html"}
    /\ res.status = 406
    /\ res.ended
    /\ Len(sse) = 1
    /\ sse[1].heartbeat

----------------------------------------------------------------------------
(* Properties of rejected requests (checked under HttpSpec) *)

\* The body of the request is a tools/call of create_user with its required
\* arguments.
IsCreateUserBody(r) ==
    /\ r.body.parse = "ok"
    /\ r.body.value.j # "null"
    /\ Arg(r.body.value, "method") = "tools/call"
    /\ CalledTool(r) = "create_user"

\* C35: a POST whose Accept header lists neither application/json nor
\* text/event-stream is answered 406 with the fixed error body whatever its
\* body is; no envelope or frame is written, the data store and the SSE
\* channels are as before.
C35_RejectedPostLeavesStore ==
    [][(req'.method = "POST" /\ ~AcceptsJsonOrSse(req'))
       => /\ res'.status = 406
          /\ res'.body = << [error |-> "Accept header must include application/json or text/event-stream"] >>
          /\ res'.frames = <<>>
          /\ res'.ended
          /\ mockData' = mockData
          /\ sse' = sse]_vars

\* C35 witness: a create_user call sent with Accept: text/html was rejected
\* with 406, on a store a previous call had already changed.
C35_RejectedCreateUserSeen ==
    /\ req.method = "POST"
    /\ req.accept = {"text/html"}
    /\ IsCreateUserBody(req)
    /\ res.status = 406
    /\ mockData # getMockData

----------------------------------------------------------------------------
(* Properties of MCPServer.close (checked under CloseLiveSpec) *)

\* C38: the promise of close() is resolved at most once, and exactly once
\* by the time close() counts as resolved, whichever of the server.close
\* callback, the force timer and the timeout runs first and whatever runs
\* after it; and once close() has been called it does resolve, also when
\* streamingService.close() threw and when the server was never started.
C38_CloseResolvesExactlyOnce ==
    /\ [](server.resolves <= 1)
    /\ [](server.state = "closed" <=> server.resolves = 1)
    /\ [][CloseUnstarted => server'.state = "closed"]_vars
    /\ (server.state = "closing") ~> (server.state = "closed")

\* C38 witness: close() was called while a connection was open, its force
\* timer resolved it, and the server.close callback ran afterwards, once
\* the connection had gone, without resolving again.
C38_LateCallbackAfterForce ==
    /\ server.state = "closed"
    /\ server.resolves = 1
    /\ server.pending = {}
    /\ server.forceAt > 0
    /\ now >= server.forceAt
    /\ nextClientId > 0
    /\ clients = <<>>

====
